---- MODULE Spec2Model ----
(***************************************************************************)
(* The extraction pipeline of ytextract: ExtractionService.extract and the *)
(* services it drives (YouTubeService, LLMService, TemplateService), as a  *)
(* state machine whose steps are the code between two awaits.              *)
(*                                                                         *)
(* Text is modelled as a sequence of blocks [s, n], the first n characters *)
(* of s: a whole token T(s) is a single character or an atom of text the   *)
(* code never looks inside; a long transcript is a block of many           *)
(* characters.                                                             *)
(***************************************************************************)
EXTENDS Integers, Sequences, FiniteSets, TLC

VARIABLES
    settings,      \* YTExtractSettings, shared by the services
    url,           \* the argument of extract(url)
    files,         \* vault: path -> content of the files
    folders,       \* vault: set of folder paths
    pc,            \* position of extract() in its chain of awaits
    statusBar,     \* StatusBarManager: the messages shown, in order
    notices,       \* Notice objects created, in order
    attempt,       \* extractVideoWithRetry: loop variable
    lastError,     \* extractVideoWithRetry: lastError
    inflight,      \* network operations not yet settled: <<attempt, op>>
    metaRes,       \* settled result of fetchMetadata of the current attempt
    trRes,         \* settled result of fetchTranscript of the current attempt
    youtubeData,   \* extract: youtubeData
    provider,      \* LLMService.provider (name of the active adapter)
    probeIdx,      \* autoDetect: index of the provider being probed
    probes,        \* history: the testConnection calls of autoDetect, in order
    genCalls,      \* history: adapter.generateSummary calls, in order
    llmResponse,   \* extract: llmResponse
    templateData,  \* extract: templateData
    content,       \* extract: content
    finalPath,     \* extract: finalPath
    thrown,        \* the error handleError received ("" when none)
    absorbed,      \* history: errors caught by a stage handler and not rethrown
    failed,        \* history: the operations that failed, [stage, error], in order
    vault0,        \* history: the vault at the start, [files, folders]
    console,       \* what console.log and console.error were called with, in order
    unit           \* a single call of one method: [op, args, result]

vars == <<settings, url, files, folders, pc, statusBar, notices, attempt,
          lastError, inflight, metaRes, trRes, youtubeData,
          provider, probeIdx, probes, genCalls, llmResponse, templateData,
          content, finalPath, thrown, absorbed, failed, vault0, console, unit>>

----------------------------------------------------------------------------
(* Bounds of the model *)

\* how many numbered copies of the target note the vault may hold at the start
MaxExisting == 1
\* how many numbered notes the vault of a single call may hold next to a name
MaxSuffix == 2
\* how many tags a list formatted in a single call may hold
MaxTags == 3

(* Program constants *)

\* extractVideoWithRetry(url, maxRetries = 3)
maxRetries == 3
\* extract: const maxLLMLength = 15000
maxLLMLength == 15000
\* extractVideoId: [a-zA-Z0-9_-]{11}
IdLength == 11
\* sanitizeFilename: substring(0, 100)
MaxNameLength == 100

----------------------------------------------------------------------------
(* Generic helpers on token sequences *)

None == [tag |-> "none"]

Min(a, b) == IF a < b THEN a ELSE b

\* s.substring(0, k)
Take(s, k) == SubSeq(s, 1, Min(k, Len(s)))

\* s.substring(k) for a 0-based k
Drop(s, k) == SubSeq(s, k + 1, Len(s))

\* true when the tokens of lit occur in s starting at (1-based) position i
MatchAt(s, i, lit) ==
    /\ i + Len(lit) - 1 <= Len(s)
    /\ \A j \in 1..Len(lit) : s[i + j - 1] = lit[j]

\* s.indexOf(lit), 1-based; 0 when absent
IndexOf(s, lit) ==
    IF \E i \in 1..Len(s) : MatchAt(s, i, lit)
    THEN CHOOSE i \in 1..Len(s) :
            /\ MatchAt(s, i, lit)
            /\ \A k \in 1..(i - 1) : ~MatchAt(s, k, lit)
    ELSE 0

\* s.lastIndexOf(tok) for a single token, 1-based; 0 when absent
LastIndexOf(s, tok) ==
    IF \E i \in 1..Len(s) : s[i] = tok
    THEN CHOOSE i \in 1..Len(s) :
            /\ s[i] = tok
            /\ \A k \in (i + 1)..Len(s) : s[k] # tok
    ELSE 0

\* s.replace(lit, rep) with a string pattern: the first occurrence only
ReplaceFirst(s, lit, rep) ==
    LET i == IndexOf(s, lit)
    IN  IF i = 0 THEN s
        ELSE SubSeq(s, 1, i - 1) \o rep \o SubSeq(s, i + Len(lit), Len(s))

----------------------------------------------------------------------------
(* Text: a sequence of blocks; Block(s, n) is the first n characters of s *)

Block(s, n) == [s |-> s, n |-> n]

\* a whole token
T(s) == Block(s, Len(s))

\* a text from its tokens
Toks(seq) == [i \in DOMAIN seq |-> T(seq[i])]

RECURSIVE TLen(_)
\* text.length
TLen(t) == IF t = <<>> THEN 0 ELSE Head(t).n + TLen(Tail(t))

RECURSIVE TTake(_, _)
\* text.substring(0, k)
TTake(t, k) ==
    IF t = <<>> \/ k <= 0 THEN <<>>
    ELSE IF Head(t).n <= k
         THEN <<Head(t)>> \o TTake(Tail(t), k - Head(t).n)
         ELSE <<Block(Head(t).s, k)>>

EmptyText == <<>>
UnavailableText == <<T("Transcript unavailable")>>
TruncationMarker == <<T("\n\n[Transcript truncated for LLM processing]")>>

----------------------------------------------------------------------------
(* YouTubeService.extractVideoId *)

IdChars == {"d", "Q", "w", "4", "9", "W", "g", "X", "c", "_", "-"}

\* the eleven characters of a video id
SampleId == Toks(<<"d", "Q", "w", "4", "w", "9", "W", "g", "X", "c", "Q">>)

WatchUrl == Toks(<<"https", ":", "//www.", "youtube.com/watch?", "v=">>) \o SampleId
ShortUrl == Toks(<<"https", ":", "//", "youtu.be/">>) \o SampleId
EmbedUrl == Toks(<<"https", ":", "//www.", "youtube.com/embed/">>) \o SampleId
QueryUrl ==
    Toks(<<"https", ":", "//www.", "youtube.com/watch?", "t=5&", "v=">>) \o SampleId
BareId == SampleId
TruncatedUrl == Toks(<<"https", ":", "//", "youtu.be/">>) \o Take(SampleId, 5)
OtherUrl == Toks(<<"https", ":", "//", "example.com/", "page">>)
EmptyUrl == <<>>

\* [a-zA-Z0-9_-]{11} at position i
IdAt(s, i) ==
    /\ i + IdLength - 1 <= Len(s)
    /\ \A j \in 0..(IdLength - 1) : s[i + j] \in {T(c) : c \in IdChars}

\* /(?:youtube\.com\/watch\?v=|youtu\.be\/|youtube\.com\/embed\/)([a-zA-Z0-9_-]{11})/
Pattern1Prefixes ==
    << Toks(<<"youtube.com/watch?", "v=">>), Toks(<<"youtu.be/">>),
       Toks(<<"youtube.com/embed/">>) >>

Pattern1At(s, i) ==
    \E k \in 1..Len(Pattern1Prefixes) :
        /\ MatchAt(s, i, Pattern1Prefixes[k])
        /\ IdAt(s, i + Len(Pattern1Prefixes[k]))

\* the capture group of the first alternative that matches at i
Pattern1Group(s, i) ==
    LET k == CHOOSE k \in 1..Len(Pattern1Prefixes) :
                /\ MatchAt(s, i, Pattern1Prefixes[k])
                /\ IdAt(s, i + Len(Pattern1Prefixes[k]))
                /\ \A m \in 1..(k - 1) :
                      ~(MatchAt(s, i, Pattern1Prefixes[m])
                        /\ IdAt(s, i + Len(Pattern1Prefixes[m])))
        from == i + Len(Pattern1Prefixes[k])
    IN  SubSeq(s, from, from + IdLength - 1)

\* /youtube\.com\/watch\?.*v=([a-zA-Z0-9_-]{11})/ : .* is greedy, so the
\* last "v=" followed by an id after the leftmost "youtube.com/watch?"
Pattern2At(s, i) ==
    /\ MatchAt(s, i, Toks(<<"youtube.com/watch?">>))
    /\ \E j \in (i + 1)..Len(s) : MatchAt(s, j, Toks(<<"v=">>)) /\ IdAt(s, j + 1)

Pattern2Group(s, i) ==
    LET j == CHOOSE j \in (i + 1)..Len(s) :
                /\ MatchAt(s, j, Toks(<<"v=">>)) /\ IdAt(s, j + 1)
                /\ \A m \in (j + 1)..Len(s) :
                      ~(MatchAt(s, m, Toks(<<"v=">>)) /\ IdAt(s, m + 1))
    IN  SubSeq(s, j + 1, j + IdLength)

\* the leftmost position where P matches
Leftmost(s, P(_, _)) ==
    CHOOSE i \in 1..Len(s) : P(s, i) /\ \A k \in 1..(i - 1) : ~P(s, k)

\* returns the id, or <<>> for null
extractVideoId(u) ==
    IF \E i \in 1..Len(u) : Pattern1At(u, i)
    THEN Pattern1Group(u, Leftmost(u, Pattern1At))
    ELSE IF \E i \in 1..Len(u) : Pattern2At(u, i)
         THEN Pattern2Group(u, Leftmost(u, Pattern2At))
         ELSE <<>>

RECURSIVE TrimStart(_)
TrimStart(s) == IF s # <<>> /\ Head(s) = T(" ") THEN TrimStart(Tail(s)) ELSE s

RECURSIVE TrimEnd(_)
TrimEnd(s) ==
    IF s # <<>> /\ s[Len(s)] = T(" ") THEN TrimEnd(SubSeq(s, 1, Len(s) - 1)) ELSE s

\* text.trim()
Trim(s) == TrimEnd(TrimStart(s))

\* the tokens of the sample texts that contain 'youtube.com' or 'youtu.be'
HostTokens == {T("youtube.com/watch?"), T("youtube.com/embed/"), T("youtu.be/")}

\* YTExtractPlugin.looksLikeYouTubeURL: whether a selected text is offered
\* for extraction
looksLikeYouTubeURL(text) ==
    IF Trim(text) = <<>> THEN FALSE
    ELSE \/ \E i \in DOMAIN Trim(text) : Trim(text)[i] \in HostTokens
         \/ Len(Trim(text)) = IdLength /\ IdAt(Trim(text), 1)

\* a bug to compare with: any text that is not empty passes the validation
isValidYouTubeUrl_Loose(u) == u # <<>>

\* YouTubeService.isValidYouTubeUrl
isValidYouTubeUrl(u) == extractVideoId(u) # <<>>

----------------------------------------------------------------------------
(* YouTubeService.fetchMetadata and the transcript fetch *)

\* what the video page yields: every field found, no field found, or the
\* request (or the reading of its response) throws
MetadataOutcomes == {"parsed", "bare", "throws"}

PageTitle == Toks(<<"Talk", ":", " ", "AI">>)
PageChannel == Toks(<<"Some Channel">>)

CanonicalUrl(videoId) ==
    Toks(<<"https", ":", "//www.", "youtube.com/watch?", "v=">>) \o videoId

ChannelUrl(videoId) ==
    Toks(<<"https", ":", "//www.", "youtube.com/channel/">>) \o videoId

ThumbnailUrl(videoId) ==
    Toks(<<"https", ":", "//i.ytimg.com/vi/">>) \o videoId \o Toks(<<"/maxresdefault.jpg">>)

\* new Date().toISOString().split('T')[0]
Today == Toks(<<"2026-11-01">>)

\* the record fetchMetadata builds from the page
ParsedMetadata(videoId, outcome) ==
    IF outcome = "parsed"
    THEN [title |-> PageTitle, url |-> CanonicalUrl(videoId),
          videoId |-> videoId, channel |-> PageChannel,
          uploadDate |-> Toks(<<"2024-01-15">>),
          duration |-> Toks(<<"3m 33s">>), viewCount |-> 1200,
          description |-> Toks(<<"About AI">>),
          channelUrl |-> ChannelUrl(videoId), thumbnailUrl |-> ThumbnailUrl(videoId)]
    ELSE [title |-> Toks(<<"Video ">>) \o videoId, url |-> CanonicalUrl(videoId),
          videoId |-> videoId, channel |-> Toks(<<"Unknown Channel">>),
          uploadDate |-> Today,
          duration |-> Toks(<<"0s">>), viewCount |-> 0,
          description |-> <<>>,
          channelUrl |-> ChannelUrl(videoId), thumbnailUrl |-> ThumbnailUrl(videoId)]

\* the record of the catch block of fetchMetadata
FallbackMetadata(videoId) ==
    [title |-> Toks(<<"Video ">>) \o videoId, url |-> CanonicalUrl(videoId),
     videoId |-> videoId, channel |-> Toks(<<"Unknown">>),
     uploadDate |-> Today,
     duration |-> Toks(<<"0", ":", "00">>), viewCount |-> 0,
     description |-> <<>>,
     channelUrl |-> <<>>, thumbnailUrl |-> ThumbnailUrl(videoId)]

MetadataError == "Request failed, status 500"

\* a bug to compare with: fetchMetadata without its try/catch
fetchMetadata_NoCatch(videoId, outcome) ==
    IF outcome = "throws"
    THEN [ok |-> FALSE, outcome |-> outcome, error |-> MetadataError]
    ELSE [ok |-> TRUE, outcome |-> outcome, value |-> ParsedMetadata(videoId, outcome)]

\* fetchMetadata(videoId): how its promise settles for each outcome of the
\* page request; the outcome is kept with the result
fetchMetadata(videoId, outcome) ==
    [ok |-> TRUE, outcome |-> outcome,
     value |-> IF outcome = "throws" THEN FallbackMetadata(videoId)
               ELSE ParsedMetadata(videoId, outcome)]

\* the errors a transcript fetch ends with
FetchErrors == {"No captions found in Innertube response", "Request failed, status 429"}

ShortTranscript ==
    [plain |-> Toks(<<"Hello world">>),
     timestamped |-> <<[text |-> Toks(<<"Hello world">>), offset |-> 1000, duration |-> 500]>>]
LongTranscript ==
    [plain |-> <<Block("x", maxLLMLength + 1)>>,
     timestamped |-> <<[text |-> <<Block("x", maxLLMLength + 1)>>, offset |-> 0, duration |-> 0]>>]

Transcripts == {ShortTranscript, LongTranscript}

TranscriptOutcomes ==
    [ok : {TRUE}, value : Transcripts] \cup [ok : {FALSE}, error : FetchErrors]

----------------------------------------------------------------------------
(* Settings and the vault *)

ErrorBehaviors == {"stop", "partial", "skip"}
LLMProviders == {"lmstudio", "custom", "openai", "anthropic", "openrouter"}
FileExistsBehaviors == {"append", "prompt"}

TemplateFile == Toks(<<"Templates", "/", "video", ".md">>)
VideosFolder == Toks(<<"Videos">>)
DefaultNamingPattern == Toks(<<"{date}", " - ", "{title}">>)
DefaultSystemPrompt ==
    "Summarize the following transcript concisely and suggest relevant tags"

\* settings.llmApiKey: unset, a key of Anthropic's form, a key of another form
NoKey == <<>>
AnthropicKey == Toks(<<"sk-ant-", "k1">>)
OtherKey == Toks(<<"sk-", "k2">>)
ApiKeys == {NoKey, AnthropicKey, OtherKey}

SettingsSpace ==
    [errorBehavior : ErrorBehaviors,
     llmProvider : LLMProviders,
     autoDetectEndpoint : BOOLEAN,
     llmApiKey : ApiKeys,
     templatePath : {<<>>, TemplateFile},
     fileExistsBehavior : FileExistsBehaviors,
     defaultFolder : {<<>>, VideosFolder},
     namingPattern : {DefaultNamingPattern},
     includeUploadDate : {TRUE},
     includeDuration : {TRUE},
     includeViewCount : {FALSE},
     includeDescription : {FALSE},
     includeChannelUrl : {FALSE},
     includeThumbnailUrl : {FALSE},
     customSystemPrompt : {DefaultSystemPrompt}]

\* vault.getAbstractFileByPath(path): "file", "folder" or "null"
getAbstractFileByPath(path) ==
    IF path \in DOMAIN files THEN "file"
    ELSE IF path \in folders THEN "folder"
    ELSE "null"

----------------------------------------------------------------------------
(* Notifications and the central error handler *)

\* a bug to compare with: every notification is raised as an error
Notice_AsError(kind, msg) == [kind |-> "error", msg |-> msg]

\* new Notice(message); the kind is the prefix of the message: "Warning:",
\* "Error:" or "Created:"
Notice(kind, msg) == [kind |-> kind, msg |-> msg]

\* a call of console.log or console.error
Logged(level, msg) == [level |-> level, msg |-> msg]

\* ExtractionService.handleError: the run ends in Failed
handleErrorAfter(log, msg) ==
    /\ thrown' = msg
    /\ console' = Append(log, Logged("error", "Extraction error: " \o msg))
    /\ statusBar' = Append(statusBar, "Extraction failed")
    /\ notices' = Append(notices, Notice("error", "Error: " \o msg))
    /\ pc' = "Failed"

\* a bug to compare with: the catch of extract ends the run without a notice
handleError_Silent(msg) ==
    /\ thrown' = msg
    /\ console' = Append(console, Logged("error", "Extraction error: " \o msg))
    /\ statusBar' = Append(statusBar, "Extraction failed")
    /\ notices' = notices
    /\ pc' = "Failed"

handleError(msg) == handleErrorAfter(console, msg)

----------------------------------------------------------------------------
(* LLMService *)

\* LLMService.createProvider: the adapter for settings.llmProvider
createProvider(name) ==
    CASE name = "ollama" -> "Ollama"
      [] name = "lmstudio" -> "LM Studio"
      [] name = "llamacpp" -> "llama.cpp"
      [] name = "openai" -> "OpenAI"
      [] name = "anthropic" -> "Anthropic"
      [] name = "openrouter" -> "OpenRouter"
      [] OTHER -> "Ollama"

\* LLMService.autoDetect: the adapters probed, in order
AutoDetectProviders == <<"Ollama", "LM Studio", "llama.cpp">>

\* what a testConnection call ends with
ProbeOutcomes == {"true", "false", "throws"}

\* the adapters of models/providers
LocalAdapters == {"Ollama", "LM Studio", "llama.cpp"}
CloudAdapters == {"OpenAI", "Anthropic", "OpenRouter"}
Adapters == LocalAdapters \cup CloudAdapters

\* how the HTTP request of an adapter ends: a 2xx response, another status,
\* a rejected fetch, the abort of fetchWithTimeout
NetOutcomes == {"ok", "status", "network", "timeout"}

\* what a call ends with: a returned value or a thrown error
Return(v) == [threw |-> FALSE, value |-> v]
Throw(e) == [threw |-> TRUE, error |-> e]

\* the try block of <Adapter>.testConnection
testConnectionTry(adapter, apiKey, net) ==
    IF adapter \in CloudAdapters /\ apiKey = NoKey
    THEN Throw("API key is required")
    ELSE IF adapter = "Anthropic"
         THEN Return(Len(apiKey) > 0 /\ apiKey[1] = T("sk-ant-"))
         ELSE IF net = "network" THEN Throw("Failed to fetch")
              ELSE IF net = "timeout" THEN Throw("The operation was aborted")
              ELSE Return(net = "ok")

\* a bug to compare with: the adapter's method without its catch
testConnection_NoCatch(adapter, apiKey, net) == testConnectionTry(adapter, apiKey, net)

\* <Adapter>.testConnection: try { ... } catch { return false }
testConnection(adapter, apiKey, net) ==
    LET r == testConnectionTry(adapter, apiKey, net)
    IN  IF r.threw THEN Return(FALSE) ELSE r

\* LLMService.testConnection: the active adapter's, in a try/catch of its own
LLMService_testConnection(adapter, apiKey, net) ==
    LET r == testConnection(adapter, apiKey, net)
    IN  IF r.threw THEN Return(FALSE) ELSE r

\* what autoDetect sees of a probe
ProbeResult(r) == IF r.threw THEN "throws" ELSE IF r.value THEN "true" ELSE "false"

\* a bug to compare with: the detected adapter is written to the settings
settingsAfterDetect_Persisted(st, name) ==
    [st EXCEPT !.llmProvider =
        CASE name = "Ollama" -> "ollama"
          [] name = "LM Studio" -> "lmstudio"
          [] OTHER -> "llamacpp"]

\* LLMService.generateSummary: this.provider = detectedProvider assigns the
\* service's own field; the settings object is left as it is
settingsAfterDetect(st, name) == st

\* a bug to compare with: auto-detection runs for every selected provider
shouldAutoDetect_IgnoresProvider(st) == st.autoDetectEndpoint

\* LLMService.generateSummary: whether autoDetect runs first
shouldAutoDetect(st) == st.autoDetectEndpoint /\ st.llmProvider = "custom"

\* a bug to compare with: a transcript of exactly maxLLMLength is cut too
truncatedTranscript_AtLimit(transcript) ==
    IF TLen(transcript) >= maxLLMLength
    THEN TTake(transcript, maxLLMLength) \o TruncationMarker
    ELSE transcript

\* extract: the transcript handed to the LLM
truncatedTranscript(transcript) ==
    IF TLen(transcript) > maxLLMLength
    THEN TTake(transcript, maxLLMLength) \o TruncationMarker
    ELSE transcript

\* a bug to compare with: the credential is looked at after the request
sendsRequest_Always(adapter, apiKey) == TRUE

\* <Adapter>.generateSummary: whether the call reaches fetchWithTimeout
sendsRequest(adapter, apiKey) == ~(adapter \in CloudAdapters /\ apiKey = NoKey)

\* the error a cloud adapter throws ahead of its try block
MissingKeyError(adapter) == adapter \o " API key is required"

\* the call provider.generateSummary(transcript, settings.customSystemPrompt),
\* with whether it sends an HTTP request
GenerationCall(adapter, transcript, st) ==
    [adapter |-> adapter, transcript |-> transcript, prompt |-> st.customSystemPrompt,
     request |-> sendsRequest(adapter, st.llmApiKey)]

FullResponse ==
    [summary |-> Toks(<<"A summary">>),
     keyPoints |-> <<Toks(<<"Point one">>), Toks(<<"Point two">>)>>,
     tags |-> <<Toks(<<"Machine", " ", "Learning">>), Toks(<<"AI", "!">>)>>,
     questions |-> <<Toks(<<"Why", "?">>)>>]

LLMResponses == {FullResponse}

GenerationErrors == {"Ollama generation failed: Failed to fetch"}

GenerationOutcomes ==
    [ok : {TRUE}, value : LLMResponses] \cup [ok : {FALSE}, error : GenerationErrors]

MissingKeyOutcomes == {[ok |-> FALSE, error |-> MissingKeyError(a)] : a \in CloudAdapters}

\* <Adapter>.generateSummary: what a call ends with
GenerationOutcomesOf(call) ==
    IF call.request
    THEN GenerationOutcomes
    ELSE {[ok |-> FALSE, error |-> MissingKeyError(call.adapter)]}

\* a bug to compare with: the same empty result under every policy
handleLLMErrorResult_AllEmpty(behavior) ==
    [summary |-> <<>>, keyPoints |-> <<>>, tags |-> <<>>, questions |-> <<>>]

\* ExtractionService.handleLLMError, when it returns
handleLLMErrorResult(behavior) ==
    IF behavior = "partial" \/ behavior = "skip"
    THEN [summary |-> IF behavior = "skip" THEN Toks(<<"LLM unavailable">>) ELSE <<>>,
          keyPoints |-> <<>>, tags |-> <<>>, questions |-> <<>>]
    ELSE [summary |-> <<>>, keyPoints |-> <<>>, tags |-> <<>>, questions |-> <<>>]

\* a bug to compare with: the transcript is left empty under every policy
handleYouTubeErrorResult_AlwaysEmpty(behavior, u) ==
    [metadata |-> [title |-> Toks(<<"Unknown Video">>), url |-> u,
                   videoId |-> extractVideoId(u), channel |-> Toks(<<"Unknown">>)],
     transcript |-> EmptyText,
     timestampedTranscript |-> <<>>]

\* ExtractionService.handleYouTubeError, when it returns
handleYouTubeErrorResult(behavior, u) ==
    [metadata |-> [title |-> Toks(<<"Unknown Video">>), url |-> u,
                   videoId |-> extractVideoId(u), channel |-> Toks(<<"Unknown">>)],
     transcript |-> IF behavior = "skip" THEN UnavailableText ELSE EmptyText,
     timestampedTranscript |-> <<>>]

----------------------------------------------------------------------------
(* TemplateService: the template record *)

\* a field of an object, or dflt when the field is absent or falsy
Field(rec, name, dflt) ==
    IF name \in DOMAIN rec /\ rec[name] # <<>> THEN rec[name] ELSE dflt

RECURSIVE Join(_, _)
\* parts.join(sep)
Join(parts, sep) ==
    IF parts = <<>> THEN <<>>
    ELSE IF Len(parts) = 1 THEN parts[1]
    ELSE parts[1] \o sep \o Join(Tail(parts), sep)

\* TemplateService.formatKeyPoints
formatKeyPoints(points) ==
    Join([i \in DOMAIN points |-> Toks(<<"- ">>) \o points[i]], Toks(<<"\n">>))

\* TemplateService.formatQuestions
formatQuestions(questions) ==
    Join([i \in DOMAIN questions |-> Toks(<<ToString(i), ". ">>) \o questions[i]],
         Toks(<<"\n">>))

\* characters outside [\w\s-] among the tokens of the model
NonWordChars ==
    {"!", "?", ":", "#", "\"", "'", "\\", "$", "/", ".", "*", "<", ">", "|", "&", "="}

\* String.toLowerCase on a token
Lower(tok) ==
    CASE tok.s = "Machine" -> T("machine")
      [] tok.s = "Learning" -> T("learning")
      [] tok.s = "AI" -> T("ai")
      [] OTHER -> tok

RECURSIVE CollapseSpaces(_)
\* .replace(/\s+/g, '-')
CollapseSpaces(t) ==
    IF t = <<>> THEN <<>>
    ELSE IF Head(t).s = " "
         THEN IF Len(t) > 1 /\ t[2].s = " "
              THEN CollapseSpaces(Tail(t))
              ELSE <<T("-")>> \o CollapseSpaces(Tail(t))
         ELSE <<Head(t)>> \o CollapseSpaces(Tail(t))

RECURSIVE TrimLeadingHyphens(_)
TrimLeadingHyphens(t) ==
    IF t # <<>> /\ Head(t).s = "-" THEN TrimLeadingHyphens(Tail(t)) ELSE t

RECURSIVE TrimTrailingHyphens(_)
TrimTrailingHyphens(t) ==
    IF t # <<>> /\ t[Len(t)].s = "-"
    THEN TrimTrailingHyphens(SubSeq(t, 1, Len(t) - 1))
    ELSE t

\* the normalisation formatTagsYAML and formatTagsHashtags apply to a tag
normalizeTag(tag) ==
    LET lower == [i \in DOMAIN tag |-> Lower(tag[i])]
        kept == SelectSeq(lower, LAMBDA tok : tok.s \notin NonWordChars)
    IN  TrimTrailingHyphens(TrimLeadingHyphens(CollapseSpaces(kept)))

\* TemplateService.formatTagsYAML
formatTagsYAML(tags) ==
    IF tags = <<>> THEN <<>>
    ELSE LET formatted ==
                SelectSeq([i \in DOMAIN tags |-> normalizeTag(tags[i])],
                          LAMBDA tag : Len(tag) > 0)
         IN  Toks(<<"\n">>)
             \o Join([i \in DOMAIN formatted |-> Toks(<<"  - ">>) \o formatted[i]],
                     Toks(<<"\n">>))

\* TemplateService.formatTagsHashtags
formatTagsHashtags(tags) ==
    Join([i \in DOMAIN tags |-> Toks(<<"#">>) \o normalizeTag(tags[i])], Toks(<<" ">>))

\* YouTubeService.formatTimestamp: MM:SS or HH:MM:SS
formatTimestamp(ms) ==
    LET seconds == ms \div 1000
        minutes == seconds \div 60
        hours == minutes \div 60
        Pad(n) == IF n < 10 THEN "0" \o ToString(n) ELSE ToString(n)
    IN  IF hours > 0
        THEN Toks(<<Pad(hours), ":", Pad(minutes % 60), ":", Pad(seconds % 60)>>)
        ELSE Toks(<<Pad(minutes % 60), ":", Pad(seconds % 60)>>)

\* YouTubeService.formatTimestampedTranscript
formatTimestampedTranscript(segments) ==
    Join([i \in DOMAIN segments |->
             Toks(<<"[">>) \o formatTimestamp(segments[i].offset) \o Toks(<<"] ">>)
             \o segments[i].text],
         Toks(<<"\n">>))

\* the keys of TemplateData, in the order buildTemplateData sets them
TemplateKeys ==
    <<"title", "url", "channel", "upload_date", "duration", "view_count",
      "description", "channel_url", "thumbnail_url", "llm_summary",
      "llm_key_points", "generated_tags", "generated_tags_hashtags",
      "llm_questions", "transcript", "transcript_timestamped", "extraction_date">>

\* TemplateService.buildTemplateData
buildTemplateData(data, llm, st) ==
    LET metadata == data.metadata IN
    [title |-> metadata.title,
     url |-> metadata.url,
     channel |-> metadata.channel,
     upload_date |-> IF st.includeUploadDate THEN Field(metadata, "uploadDate", <<>>) ELSE <<>>,
     duration |-> IF st.includeDuration THEN Field(metadata, "duration", <<>>) ELSE <<>>,
     view_count |->
        IF st.includeViewCount /\ "viewCount" \in DOMAIN metadata /\ metadata.viewCount # 0
        THEN Toks(<<ToString(metadata.viewCount)>>) ELSE <<>>,
     description |-> IF st.includeDescription THEN Field(metadata, "description", <<>>) ELSE <<>>,
     channel_url |-> IF st.includeChannelUrl THEN Field(metadata, "channelUrl", <<>>) ELSE <<>>,
     thumbnail_url |->
        IF st.includeThumbnailUrl THEN Field(metadata, "thumbnailUrl", <<>>) ELSE <<>>,
     llm_summary |-> Field(llm, "summary", <<>>),
     llm_key_points |-> formatKeyPoints(Field(llm, "keyPoints", <<>>)),
     generated_tags |-> formatTagsYAML(Field(llm, "tags", <<>>)),
     generated_tags_hashtags |-> formatTagsHashtags(Field(llm, "tags", <<>>)),
     llm_questions |-> formatQuestions(Field(llm, "questions", <<>>)),
     transcript |-> data.transcript,
     transcript_timestamped |-> formatTimestampedTranscript(data.timestampedTranscript),
     extraction_date |-> Today]

----------------------------------------------------------------------------
(* TemplateService: rendering *)

\* TemplateService.loadDefaultTemplate; a "---" token is a line holding only ---
DefaultTemplate ==
    Toks(<<"---",
           "title: ", "{{title}}", "\n",
           "url: ", "{{url}}", "\n",
           "channel: ", "{{channel}}", "\n",
           "date: ", "{{upload_date}}", "\n",
           "duration: ", "{{duration}}",
           "---",
           "# ", "{{title}}", "\n",
           "{{generated_tags_hashtags}}", "\n",
           "## Summary", "{{llm_summary}}",
           "---",
           "## Key Points", "{{llm_key_points}}",
           "---",
           "## Personal Notes",
           "---",
           "## Transcript", "{{transcript}}">>)

\* a template a user keeps in the vault: no frontmatter, an unknown placeholder
CustomTemplate ==
    Toks(<<"# ", "{{title}}", "\n", "{{llm_summary}}", "\n", "{{unknown}}", "\n",
           "## Transcript", "{{transcript}}">>)

\* TemplateService.escapeYAMLValue
escapeYAMLValue(value) ==
    IF \E i \in DOMAIN value : value[i].s \in {"\"", "'", ":", "#", "\\"}
    THEN LET Esc(tok) == IF tok.s = "\\" \/ tok.s = "'" THEN <<tok, tok>> ELSE <<tok>>
             RECURSIVE EscAll(_)
             EscAll(t) == IF t = <<>> THEN <<>> ELSE Esc(Head(t)) \o EscAll(Tail(t))
         IN  Toks(<<"'">>) \o EscAll(value) \o Toks(<<"'">>)
    ELSE value

RECURSIVE DollarEscape(_)
\* value.replace(/\$/g, '$$$$'): every $ becomes $$
DollarEscape(t) ==
    IF t = <<>> THEN <<>>
    ELSE IF Head(t).s = "$"
         THEN <<Head(t), Head(t)>> \o DollarEscape(Tail(t))
         ELSE <<Head(t)>> \o DollarEscape(Tail(t))

RECURSIVE ExpandReplacement(_, _)
\* the replacement patterns String.replace reads in its second argument:
\* $$ inserts a $, $& inserts the matched text
ExpandReplacement(rep, matched) ==
    IF rep = <<>> THEN <<>>
    ELSE IF Head(rep).s = "$" /\ Len(rep) > 1 /\ rep[2].s = "$"
         THEN <<T("$")>> \o ExpandReplacement(Tail(Tail(rep)), matched)
    ELSE IF Head(rep).s = "$" /\ Len(rep) > 1 /\ rep[2].s = "&"
         THEN matched \o ExpandReplacement(Tail(Tail(rep)), matched)
    ELSE <<Head(rep)>> \o ExpandReplacement(Tail(rep), matched)

RECURSIVE ReplaceAll(_, _, _)
\* text.replace(new RegExp(`{{${key}}}`, 'g'), rep)
ReplaceAll(text, key, rep) ==
    LET placeholder == T("{{" \o key \o "}}") IN
    IF text = <<>> THEN <<>>
    ELSE IF Head(text) = placeholder
         THEN ExpandReplacement(rep, <<placeholder>>) \o ReplaceAll(Tail(text), key, rep)
         ELSE <<Head(text)>> \o ReplaceAll(Tail(text), key, rep)

RECURSIVE SubstituteFrom(_, _, _, _)
\* the loop over Object.entries(data), from the k-th key on; values are
\* escaped for YAML in the frontmatter and for String.replace in the body
SubstituteFrom(text, data, k, inFrontmatter) ==
    IF k > Len(TemplateKeys) THEN text
    ELSE LET value == data[TemplateKeys[k]]
             rep == IF inFrontmatter THEN escapeYAMLValue(value) ELSE DollarEscape(value)
         IN  SubstituteFrom(ReplaceAll(text, TemplateKeys[k], rep), data, k + 1,
                            inFrontmatter)

\* /^---\n([\s\S]*?)\n---\n([\s\S]*)$/ : the index of the closing --- line, or 0
FrontmatterEnd(template) ==
    IF /\ Len(template) > 1
       /\ template[1] = T("---")
       /\ \E j \in 2..Len(template) : template[j] = T("---")
    THEN CHOOSE j \in 2..Len(template) :
            /\ template[j] = T("---")
            /\ \A m \in 2..(j - 1) : template[m] # T("---")
    ELSE 0

\* TemplateService.replaceVariables
replaceVariables(template, data) ==
    LET j == FrontmatterEnd(template) IN
    IF j > 0
    THEN LET frontmatter == SubstituteFrom(SubSeq(template, 2, j - 1), data, 1, TRUE)
             body == SubstituteFrom(SubSeq(template, j + 1, Len(template)), data, 1, FALSE)
         IN  Toks(<<"---">>) \o frontmatter \o Toks(<<"---">>) \o body
    ELSE SubstituteFrom(template, data, 1, FALSE)

\* a bug to compare with: the fallback document also carries the summary
fallbackContent_WithSummary(data) ==
    Toks(<<"# ">>) \o data.title \o Toks(<<"\n", "URL: ">>) \o data.url
    \o Toks(<<"\n", "Channel: ">>) \o data.channel
    \o Toks(<<"\n", "## Summary">>) \o data.llm_summary
    \o Toks(<<"\n", "## Transcript">>) \o data.transcript

\* ExtractionService.handleTemplateError: the fallback document
fallbackContent(data) ==
    Toks(<<"# ">>) \o data.title \o Toks(<<"\n", "URL: ">>) \o data.url
    \o Toks(<<"\n", "Channel: ">>) \o data.channel
    \o Toks(<<"\n", "## Transcript">>) \o data.transcript

\* what follows the "## Transcript" heading of a document
TranscriptSection(doc) ==
    LET i == IndexOf(doc, Toks(<<"## Transcript">>))
    IN  IF i = 0 THEN <<>> ELSE Drop(doc, i)

----------------------------------------------------------------------------
(* TemplateService: file name and path *)

\* TemplateService.sanitizeFilename
sanitizeFilename(name) ==
    TTake([i \in DOMAIN name |->
              IF name[i].s \in {"\\", "/", ":", "*", "?", "\"", "<", ">", "|"}
              THEN T("-") ELSE name[i]],
          MaxNameLength)

\* data.url.split('v=')[1] || ''
IdFromUrl(u) ==
    LET i == IndexOf(u, Toks(<<"v=">>)) IN
    IF i = 0 THEN <<>>
    ELSE LET rest == Drop(u, i)
             j == IndexOf(rest, Toks(<<"v=">>))
         IN  IF j = 0 THEN rest ELSE SubSeq(rest, 1, j - 1)

\* TemplateService.generateFilename
generateFilename(data, st) ==
    LET f1 == ReplaceFirst(st.namingPattern, Toks(<<"{date}">>), data.extraction_date)
        f2 == ReplaceFirst(f1, Toks(<<"{title}">>), sanitizeFilename(data.title))
        f3 == ReplaceFirst(f2, Toks(<<"{channel}">>), sanitizeFilename(data.channel))
        f4 == ReplaceFirst(f3, Toks(<<"{id}">>), IdFromUrl(data.url))
    IN  f4 \o Toks(<<".md">>)

\* TemplateService.getFilePath
getFilePath(filename, st) ==
    IF st.defaultFolder # <<>> THEN st.defaultFolder \o Toks(<<"/">>) \o filename
    ELSE filename

\* `${pathWithoutExt} ${counter}.md`
NumberedPath(path, counter) ==
    ReplaceFirst(path, Toks(<<".md">>), <<>>) \o Toks(<<" ", ToString(counter), ".md">>)

RECURSIVE ProbeFrom(_, _, _)
\* the while loop of resolveFileNameConflict, entered with newPath and counter
ProbeFrom(path, newPath, counter) ==
    IF getAbstractFileByPath(newPath) # "null"
    THEN ProbeFrom(path, NumberedPath(path, counter), counter + 1)
    ELSE newPath

\* a bug to compare with: the conflict setting is not read
resolveFileNameConflict_AlwaysAppend(path, st) ==
    IF getAbstractFileByPath(path) = "null" THEN path
    ELSE ProbeFrom(path, path, 1)

\* TemplateService.resolveFileNameConflict
resolveFileNameConflict(path, st) ==
    IF getAbstractFileByPath(path) = "null" THEN path
    ELSE IF st.fileExistsBehavior = "append" THEN ProbeFrom(path, path, 1)
    ELSE path

\* a bug to compare with: the parent folder of a path is never computed
folderOf_None(path) == <<>>

\* ExtractionService.saveFile: path.substring(0, path.lastIndexOf('/'))
folderOf(path) ==
    LET i == LastIndexOf(path, T("/")) IN
    IF i = 0 THEN <<>> ELSE SubSeq(path, 1, i - 1)

----------------------------------------------------------------------------
(* The initial state: a configured plugin, a vault, no extraction started *)

\* the titles a note can get: from the page, the metadata fallback, the
\* placeholder of handleYouTubeError
PossibleTitles ==
    {PageTitle, Toks(<<"Video ">>) \o SampleId, Toks(<<"Unknown Video">>)}

\* the path extract() first targets for a title
BasePath(title, st) ==
    getFilePath(generateFilename([title |-> title, channel |-> <<>>, url |-> <<>>,
                                  extraction_date |-> Today], st), st)

\* the first n paths the append policy goes through for a title
ExistingNotes(title, st, n) ==
    {BasePath(title, st) : k \in {0} \cap 0..(n - 1)}
    \cup {NumberedPath(BasePath(title, st), k) : k \in 1..(n - 1)}

OldNote == Toks(<<"an older note">>)

\* the vaults the run can start in: n earlier notes of the same name, the
\* configured template present as a file, as a folder, or absent
InitialFiles(st, n, tpl) ==
    LET notes == UNION {ExistingNotes(t, st, n) : t \in PossibleTitles}
        tpls == IF tpl = "file" /\ st.templatePath # <<>> THEN {st.templatePath} ELSE {}
    IN  [p \in notes \cup tpls |-> IF p \in tpls THEN CustomTemplate ELSE OldNote]

InitialFolders(st, n, tpl, hasFolder) ==
    (IF st.defaultFolder # <<>> /\ (hasFolder \/ n > 0) THEN {st.defaultFolder} ELSE {})
    \cup (IF tpl = "folder" /\ st.templatePath # <<>> THEN {st.templatePath} ELSE {})
    \cup (IF tpl = "file" /\ st.templatePath # <<>> THEN {folderOf(st.templatePath)} ELSE {})

\* DEFAULT_SETTINGS, but for the error policy and the LLM selection
BaseSettings(st) ==
    /\ st.templatePath = <<>>
    /\ st.fileExistsBehavior = "append"
    /\ st.defaultFolder = <<>>

BaseLLM(st) == st.llmProvider = "lmstudio" /\ st.autoDetectEndpoint

\* the local adapters read no key; a cloud adapter is explored without a
\* key under every policy and with a key under the default policy
KeyScenario(st) ==
    IF st.llmProvider \in {"openai", "anthropic", "openrouter"}
    THEN /\ st.autoDetectEndpoint
         /\ st.llmApiKey \in {NoKey, OtherKey}
         /\ st.llmApiKey # NoKey => st.errorBehavior = "skip" /\ st.llmProvider = "openai"
    ELSE st.llmApiKey = NoKey

\* The configurations explored: the defaults varied along one axis at a
\* time (LLM selection, template, target folder, name conflicts), each axis
\* crossed with every error policy
Scenario(st, n, tpl, hasFolder) ==
    /\ st.templatePath = <<>> <=> tpl = "missing-unset"
    /\ st.defaultFolder = <<>> => ~hasFolder
    /\ KeyScenario(st)
    /\ \/ BaseSettings(st) /\ n = 0
       \/ BaseLLM(st) /\ st.fileExistsBehavior = "append" /\ st.defaultFolder = <<>> /\ n = 0
       \/ BaseLLM(st) /\ st.templatePath = <<>> /\ st.fileExistsBehavior = "append" /\ n = 0
       \/ BaseLLM(st) /\ st.templatePath = <<>>
          /\ (st.defaultFolder = <<>> \/ hasFolder) /\ n > 0

\* the services as constructed over given settings and a given vault, before
\* any call
PluginLoaded ==
    /\ url = <<>>
    /\ pc = "Idle"
    /\ statusBar = <<>>
    /\ notices = <<>>
    /\ attempt = 0
    /\ lastError = ""
    /\ inflight = {}
    /\ metaRes = None
    /\ trRes = None
    /\ youtubeData = None
    /\ provider = createProvider(settings.llmProvider)
    /\ probeIdx = 0
    /\ probes = <<>>
    /\ genCalls = <<>>
    /\ llmResponse = None
    /\ templateData = None
    /\ content = <<>>
    /\ finalPath = <<>>
    /\ thrown = ""
    /\ absorbed = <<>>
    /\ failed = <<>>
    /\ vault0 = [files |-> files, folders |-> folders]
    /\ console = <<>>

\* no method has been called on its own
Constructed == PluginLoaded /\ unit = None

Init ==
    /\ settings \in SettingsSpace
    /\ \E n \in 0..MaxExisting, tpl \in {"file", "folder", "missing", "missing-unset"},
          hasFolder \in BOOLEAN :
          /\ Scenario(settings, n, tpl, hasFolder)
          /\ files = InitialFiles(settings, n, tpl)
          /\ folders = InitialFolders(settings, n, tpl, hasFolder)
    /\ Constructed

----------------------------------------------------------------------------
(* Step 1: validation and the fetch with retries *)

\* the texts a user submits
InputUrls == {ShortUrl, BareId}

\* YouTubeService.extractVideo up to its await: both fetches start
StartAttempt(k) ==
    /\ attempt' = k
    /\ inflight' = inflight \cup {<<k, "metadata">>, <<k, "transcript">>}
    /\ metaRes' = None
    /\ trRes' = None

\* extractVideoWithRetry returns or throws: its locals are gone
RetryReturns ==
    /\ attempt' = 0
    /\ lastError' = ""
    /\ metaRes' = None
    /\ trRes' = None

\* ExtractionService.extract(url), up to the first await
Extract(u) ==
    /\ pc = "Idle"
    /\ url' = u
    /\ IF ~isValidYouTubeUrl(u)
       THEN /\ handleError("Invalid YouTube URL")
            /\ UNCHANGED <<attempt, inflight, metaRes, trRes>>
       ELSE /\ statusBar' = Append(statusBar, "Fetching transcript...")
            /\ StartAttempt(1)
            /\ pc' = "FetchingSource"
            /\ UNCHANGED <<notices, thrown, console>>
    /\ UNCHANGED <<unit, vault0, settings, files, folders, lastError, youtubeData, provider,
                   probeIdx, probes, genCalls, llmResponse, templateData, content,
                   finalPath, absorbed, failed>>

\* the page request of fetchMetadata settles while extractVideo awaits it
MetadataSettles(outcome) ==
    /\ pc = "FetchingSource"
    /\ <<attempt, "metadata">> \in inflight
    /\ inflight' = inflight \ {<<attempt, "metadata">>}
    /\ \E videoId \in {extractVideoId(url)} : metaRes' = fetchMetadata(videoId, outcome)
    /\ UNCHANGED <<console, unit, vault0, settings, url, files, folders, pc, statusBar, notices, attempt,
                   lastError, trRes, youtubeData, provider, probeIdx, probes,
                   genCalls, llmResponse, templateData, content, finalPath, thrown,
                   absorbed, failed>>

\* the page request of an attempt that was already rejected settles: nobody
\* awaits its result
OrphanedMetadataSettles(k) ==
    /\ <<k, "metadata">> \in inflight
    /\ ~(pc = "FetchingSource" /\ k = attempt)
    /\ inflight' = inflight \ {<<k, "metadata">>}
    /\ UNCHANGED <<console, unit, vault0, settings, url, files, folders, pc, statusBar, notices, attempt,
                   lastError, metaRes, trRes, youtubeData, provider, probeIdx,
                   probes, genCalls, llmResponse, templateData, content, finalPath,
                   thrown, absorbed, failed>>

\* fetchTranscript settles; extractVideo awaits it until it does
TranscriptSettles(outcome) ==
    /\ pc = "FetchingSource"
    /\ <<attempt, "transcript">> \in inflight
    /\ inflight' = inflight \ {<<attempt, "transcript">>}
    /\ trRes' = outcome
    /\ UNCHANGED <<console, unit, vault0, settings, url, files, folders, pc, statusBar, notices, attempt,
                   lastError, metaRes, youtubeData, provider, probeIdx, probes,
                   genCalls, llmResponse, templateData, content, finalPath, thrown,
                   absorbed, failed>>

Fulfilled(res) == res # None /\ res.ok
Rejected(res) == res # None /\ ~res.ok

\* a bug to compare with: the transcript alone is awaited and the metadata is
\* taken as it stands when the transcript arrives
promiseAll_TranscriptOnly(m, t) ==
    IF Rejected(m) \/ Rejected(t)
    THEN [state |-> "rejected", error |-> IF Rejected(t) THEN t.error ELSE m.error]
    ELSE IF Fulfilled(t)
         THEN [state |-> "fulfilled",
               value |-> <<IF Fulfilled(m) THEN m.value ELSE FallbackMetadata(SampleId),
                           t.value>>]
         ELSE [state |-> "pending"]

\* Promise.all([fetchMetadata, fetchTranscript]) of extractVideo: rejected with
\* the first rejection, fulfilled once both are
promiseAll(m, t) ==
    IF Rejected(m) \/ Rejected(t)
    THEN [state |-> "rejected", error |-> IF Rejected(t) THEN t.error ELSE m.error]
    ELSE IF Fulfilled(m) /\ Fulfilled(t)
         THEN [state |-> "fulfilled", value |-> <<m.value, t.value>>]
         ELSE [state |-> "pending"]

\* Promise.all of extractVideo resolves: the attempt succeeded
AttemptResolves ==
    /\ pc = "FetchingSource"
    /\ promiseAll(metaRes, trRes).state = "fulfilled"
    /\ LET v == promiseAll(metaRes, trRes).value IN
       youtubeData' = [metadata |-> v[1], transcript |-> v[2].plain,
                       timestampedTranscript |-> v[2].timestamped]
    /\ pc' = "Generating"
    /\ RetryReturns
    /\ UNCHANGED <<console, unit, vault0, settings, url, files, folders, statusBar, notices, inflight,
                   provider, probeIdx, probes, genCalls, llmResponse, templateData,
                   content, finalPath, thrown, absorbed, failed>>

\* a bug to compare with: lastError keeps the first error
lastErrorAfter_KeepFirst(previous, error) ==
    IF previous = "" THEN error ELSE previous

\* extractVideoWithRetry, catch: lastError = error
lastErrorAfter(previous, error) == error

\* Promise.all of extractVideo rejects: the catch of extractVideoWithRetry,
\* and after the last attempt the catch of extract with handleYouTubeError
AttemptRejects ==
    /\ pc = "FetchingSource"
    /\ promiseAll(metaRes, trRes).state = "rejected"
    /\ LET error == promiseAll(metaRes, trRes).error
           last == lastErrorAfter(lastError, error)
       IN  IF attempt < maxRetries
           THEN /\ lastError' = last
                /\ pc' = "Backoff"
                /\ UNCHANGED <<statusBar, notices, attempt, metaRes, trRes, youtubeData,
                               thrown, console, absorbed, failed>>
           ELSE /\ RetryReturns
                /\ failed' = Append(failed, [stage |-> "fetch", error |-> error])
                /\ IF settings.errorBehavior = "stop"
                   THEN /\ handleError(last)
                        /\ UNCHANGED <<youtubeData, absorbed>>
                   ELSE /\ notices' = Append(notices,
                               Notice("warning",
                                      "Warning: " \o last \o ". Creating partial note."))
                        /\ youtubeData' = handleYouTubeErrorResult(settings.errorBehavior, url)
                        /\ absorbed' = Append(absorbed, last)
                        /\ pc' = "Generating"
                        /\ UNCHANGED <<statusBar, thrown, console>>
    /\ UNCHANGED <<unit, vault0, settings, url, files, folders, inflight, provider, probeIdx,
                   probes, genCalls, llmResponse, templateData, content, finalPath>>

\* the setTimeout of the backoff fires: the next attempt starts
BackoffElapses ==
    /\ pc = "Backoff"
    /\ StartAttempt(attempt + 1)
    /\ pc' = "FetchingSource"
    /\ UNCHANGED <<console, unit, vault0, settings, url, files, folders, statusBar, notices, lastError,
                   youtubeData, provider, probeIdx, probes, genCalls, llmResponse,
                   templateData, content, finalPath, thrown, absorbed, failed>>

----------------------------------------------------------------------------
(* Step 2: generation *)

\* LLMService.generateSummary delegates to the active adapter
Delegate(adapter) ==
    /\ genCalls' = Append(genCalls,
            GenerationCall(adapter, truncatedTranscript(youtubeData.transcript), settings))
    /\ pc' = "AwaitGeneration"

\* extract enters its second try block and calls LLMService.generateSummary
GenerationStarts ==
    /\ pc = "Generating"
    /\ statusBar' = Append(statusBar, "Generating summary...")
    /\ IF shouldAutoDetect(settings)
       THEN /\ probeIdx' = 1
            /\ pc' = "Probing"
            /\ UNCHANGED genCalls
       ELSE /\ Delegate(provider)
            /\ UNCHANGED probeIdx
    /\ console' = IF TLen(youtubeData.transcript) > maxLLMLength
                  THEN Append(console, Logged("log", "Transcript truncated"))
                  ELSE console
    /\ UNCHANGED <<unit, vault0, settings, url, files, folders, notices, attempt, lastError,
                   inflight, metaRes, trRes, youtubeData, provider, probes,
                   llmResponse, templateData, content, finalPath, thrown, absorbed, failed>>

\* LLMService.autoDetect: the testConnection of the probed adapter settles
ProbeSettles(net) ==
    /\ pc = "Probing"
    /\ LET name == AutoDetectProviders[probeIdx]
           outcome == ProbeResult(testConnection(name, settings.llmApiKey, net))
       IN
       /\ probes' = Append(probes, [adapter |-> name, result |-> outcome])
       /\ settings' = IF outcome = "true" THEN settingsAfterDetect(settings, name)
                      ELSE settings
       /\ IF outcome = "true"
          THEN /\ provider' = name
               /\ Delegate(name)
               /\ UNCHANGED probeIdx
          ELSE IF probeIdx < Len(AutoDetectProviders)
               THEN /\ probeIdx' = probeIdx + 1
                    /\ UNCHANGED <<provider, genCalls, pc>>
               ELSE /\ Delegate(provider)
                    /\ UNCHANGED <<provider, probeIdx>>
    /\ UNCHANGED <<console, unit, vault0, url, files, folders, statusBar, notices, attempt,
                   lastError, inflight, metaRes, trRes, youtubeData, llmResponse,
                   templateData, content, finalPath, thrown, absorbed, failed>>

\* a bug to compare with: a failed generation call is not logged
GenerationLog_Silent(call, outcome) == console

\* the console after a failed generation call: the catch of the LM Studio
\* adapter logs, then handleLLMError logs
GenerationLog(call, outcome) ==
    LET adapterLog == IF call.adapter = "LM Studio" /\ call.request
                      THEN Append(console, Logged("error", "LM Studio detailed error: "
                                                            \o outcome.error))
                      ELSE console
    IN  Append(adapterLog, Logged("error", "LLM Error Details: " \o outcome.error))

\* the adapter's generateSummary settles; on failure handleLLMError
GenerationSettles(outcome) ==
    /\ pc = "AwaitGeneration"
    /\ outcome \in GenerationOutcomesOf(genCalls[Len(genCalls)])
    /\ IF outcome.ok
       THEN /\ llmResponse' = outcome.value
            /\ pc' = "Rendering"
            /\ UNCHANGED <<statusBar, notices, thrown, console, absorbed, failed>>
       ELSE IF settings.errorBehavior = "stop"
            THEN /\ handleErrorAfter(GenerationLog(genCalls[Len(genCalls)], outcome),
                                     "LLM generation failed: " \o outcome.error)
                 /\ failed' = Append(failed, [stage |-> "generation", error |-> outcome.error])
                 /\ UNCHANGED <<llmResponse, absorbed>>
            ELSE /\ failed' = Append(failed, [stage |-> "generation", error |-> outcome.error])
                 /\ console' = GenerationLog(genCalls[Len(genCalls)], outcome)
                 /\ notices' = Append(notices,
                        Notice("warning", "Warning: LLM error - " \o outcome.error
                                          \o ". Creating note without summary."))
                 /\ llmResponse' = handleLLMErrorResult(settings.errorBehavior)
                 /\ absorbed' = Append(absorbed, outcome.error)
                 /\ pc' = "Rendering"
                 /\ UNCHANGED <<statusBar, thrown>>
    /\ UNCHANGED <<unit, vault0, settings, url, files, folders, attempt, lastError, inflight,
                   metaRes, trRes, youtubeData, provider, probeIdx, probes, genCalls,
                   templateData, content, finalPath>>

----------------------------------------------------------------------------
(* Step 3: rendering *)

TemplateNotFound == "Custom template file not found"
TemplateUnreadable == "EIO: template could not be read"

\* ExtractionService.handleTemplateError
handleTemplateError(msg, data) ==
    /\ notices' = Append(notices, Notice("warning", "Warning: Template error, using fallback"))
    /\ content' = fallbackContent(data)
    /\ absorbed' = Append(absorbed, msg)
    /\ failed' = Append(failed, [stage |-> "template", error |-> msg])

\* extract builds the template record and calls processTemplate
RenderingStarts ==
    /\ pc = "Rendering"
    /\ statusBar' = Append(statusBar, "Saving note...")
    /\ templateData' = buildTemplateData(youtubeData, llmResponse, settings)
    /\ IF settings.templatePath # <<>>
       THEN IF getAbstractFileByPath(settings.templatePath) = "file"
            THEN /\ pc' = "ReadingTemplate"
                 /\ UNCHANGED <<notices, content, absorbed, failed>>
            ELSE /\ handleTemplateError(TemplateNotFound, templateData')
                 /\ pc' = "Writing"
       ELSE /\ content' = replaceVariables(DefaultTemplate, templateData')
            /\ pc' = "Writing"
            /\ UNCHANGED <<notices, absorbed, failed>>
    /\ UNCHANGED <<console, unit, vault0, settings, url, files, folders, attempt, lastError, inflight,
                   metaRes, trRes, youtubeData, provider, probeIdx, probes, genCalls,
                   llmResponse, finalPath, thrown>>

\* vault.read of the custom template settles
TemplateReadSettles(ok) ==
    /\ pc = "ReadingTemplate"
    /\ IF ok
       THEN /\ content' = replaceVariables(files[settings.templatePath], templateData)
            /\ UNCHANGED <<notices, absorbed, failed>>
       ELSE handleTemplateError(TemplateUnreadable, templateData)
    /\ pc' = "Writing"
    /\ UNCHANGED <<console, unit, vault0, settings, url, files, folders, statusBar, attempt, lastError,
                   inflight, metaRes, trRes, youtubeData, provider, probeIdx, probes,
                   genCalls, llmResponse, templateData, finalPath, thrown>>

----------------------------------------------------------------------------
(* Step 4: writing *)

WriteErrors == {"EACCES: permission denied"}
\* the error of vault.create for a path that exists
FileExists == "File already exists."
WriteOutcomes == {"ok"} \cup WriteErrors

\* extract computes the final path; saveFile runs up to its first await
WritingStarts ==
    /\ pc = "Writing"
    /\ finalPath' = resolveFileNameConflict(
                        getFilePath(generateFilename(templateData, settings), settings),
                        settings)
    /\ pc' = IF folderOf(finalPath') # <<>> /\ getAbstractFileByPath(folderOf(finalPath')) = "null"
             THEN "CreatingFolder"
             ELSE "CreatingFile"
    /\ UNCHANGED <<console, unit, vault0, settings, url, files, folders, statusBar, notices, attempt,
                   lastError, inflight, metaRes, trRes, youtubeData, provider,
                   probeIdx, probes, genCalls, llmResponse, templateData, content,
                   thrown, absorbed, failed>>

\* vault.createFolder settles
FolderCreateSettles(outcome) ==
    /\ pc = "CreatingFolder"
    /\ IF outcome = "ok"
       THEN /\ folders' = folders \cup {folderOf(finalPath)}
            /\ pc' = "CreatingFile"
            /\ UNCHANGED <<statusBar, notices, thrown, console, failed>>
       ELSE /\ handleError(outcome)
            /\ failed' = Append(failed, [stage |-> "folder", error |-> outcome])
            /\ UNCHANGED folders
    /\ UNCHANGED <<unit, vault0, settings, url, files, attempt, lastError, inflight, metaRes,
                   trRes, youtubeData, provider, probeIdx, probes, genCalls,
                   llmResponse, templateData, content, finalPath, absorbed>>

\* vault.create settles: it refuses a path that exists
FileCreateSettles(outcome) ==
    /\ pc = "CreatingFile"
    /\ IF getAbstractFileByPath(finalPath) # "null"
       THEN /\ handleError(FileExists)
            /\ failed' = Append(failed, [stage |-> "file", error |-> FileExists])
            /\ UNCHANGED files
       ELSE IF outcome = "ok"
            THEN /\ files' = [p \in DOMAIN files \cup {finalPath} |->
                                 IF p = finalPath THEN content ELSE files[p]]
                 /\ statusBar' = Append(statusBar, "Note created successfully")
                 /\ notices' = Append(notices,
                        [kind |-> "success", msg |-> "Created: ", path |-> finalPath])
                 /\ pc' = "Done"
                 /\ UNCHANGED <<thrown, console, failed>>
            ELSE /\ handleError(outcome)
                 /\ failed' = Append(failed, [stage |-> "file", error |-> outcome])
                 /\ UNCHANGED files
    /\ UNCHANGED <<unit, vault0, settings, url, folders, attempt, lastError, inflight, metaRes,
                   trRes, youtubeData, provider, probeIdx, probes, genCalls,
                   llmResponse, templateData, content, finalPath, absorbed>>

----------------------------------------------------------------------------
(* The specification *)

Next ==
    \/ \E u \in InputUrls : Extract(u)
    \/ \E o \in MetadataOutcomes : MetadataSettles(o)
    \/ \E k \in 1..maxRetries : OrphanedMetadataSettles(k)
    \/ \E o \in TranscriptOutcomes : TranscriptSettles(o)
    \/ AttemptResolves
    \/ AttemptRejects
    \/ BackoffElapses
    \/ GenerationStarts
    \/ \E o \in NetOutcomes : ProbeSettles(o)
    \/ \E o \in GenerationOutcomes \cup MissingKeyOutcomes : GenerationSettles(o)
    \/ RenderingStarts
    \/ \E ok \in BOOLEAN : TemplateReadSettles(ok)
    \/ WritingStarts
    \/ \E o \in WriteOutcomes : FolderCreateSettles(o)
    \/ \E o \in WriteOutcomes : FileCreateSettles(o)

Spec == Init /\ [][Next]_vars

\* a step of extractVideoWithRetry: a request of the current attempt settles,
\* the attempt resolves or is rejected, the backoff timer fires
FetchStep ==
    \/ \E o \in MetadataOutcomes : MetadataSettles(o)
    \/ \E o \in TranscriptOutcomes : TranscriptSettles(o)
    \/ AttemptResolves
    \/ AttemptRejects
    \/ BackoffElapses

\* the run up to the end of the fetch
FetchNext ==
    \/ \E u \in InputUrls : Extract(u)
    \/ \E k \in 1..maxRetries : OrphanedMetadataSettles(k)
    \/ FetchStep

\* the fetch alone, where every request settles and every timer fires
\* the fetch reads neither the LLM selection nor the key
FetchInit == Init /\ createProvider(settings.llmProvider) \in LocalAdapters

FetchSpec == FetchInit /\ [][FetchNext]_vars /\ WF_vars(FetchStep)

----------------------------------------------------------------------------
(* Single calls of the methods the pipeline is built from *)

\* everything but the record of the call
pipelineVars == <<settings, url, files, folders, pc, statusBar, notices, attempt,
                  lastError, inflight, metaRes, trRes, youtubeData, provider,
                  probeIdx, probes, genCalls, llmResponse, templateData, content,
                  finalPath, thrown, absorbed, failed, vault0, console>>

\* a call of testConnection on an adapter and on the LLMService holding it
TestConnection(adapter, apiKey, net) ==
    /\ unit' = [op |-> "testConnection", adapter |-> adapter, apiKey |-> apiKey,
                net |-> net,
                result |-> testConnection(adapter, apiKey, net),
                service |-> LLMService_testConnection(adapter, apiKey, net)]
    /\ UNCHANGED pipelineVars

\* transcripts around the limit of what is sent to the LLM
TranscriptLengths ==
    {0, 1, maxLLMLength - 1, maxLLMLength, maxLLMLength + 1, 2 * maxLLMLength}
TranscriptInputs ==
    {IF n = 0 THEN <<>> ELSE <<Block("x", n)>> : n \in TranscriptLengths}
    \cup {<<T("Hello "), Block("x", n - 6)>> :
            n \in {maxLLMLength, maxLLMLength + 1, maxLLMLength + 6}}

\* extract, steps 2 and 3, on a fetched transcript: the text handed to
\* generateSummary and the transcript of the template record
GenerationInput(transcript) ==
    /\ unit' = [op |-> "generationInput", transcript |-> transcript,
                sent |-> truncatedTranscript(transcript),
                record |-> buildTemplateData(
                              [metadata |-> FallbackMetadata(SampleId),
                               transcript |-> transcript,
                               timestampedTranscript |-> <<>>],
                              handleLLMErrorResult("skip"), settings).transcript]
    /\ UNCHANGED pipelineVars

\* the paths resolveFileNameConflict is called with: a name with one '.md',
\* a name in a folder, a name with '.md' inside it
PlainPath == Toks(<<"Video", ".md">>)
FolderPath == Toks(<<"Videos", "/", "Video", ".md">>)
DottedPath == Toks(<<"README", ".md", " explained", ".md">>)
UnitPaths == {PlainPath, FolderPath, DottedPath}

\* the path with ' k' put in front of its extension
SuffixedPath(path, k) ==
    SubSeq(path, 1, Len(path) - 1) \o Toks(<<" ", ToString(k), ".md">>)

\* the names a vault may hold next to a path
Neighbours(path) ==
    {path} \cup {NumberedPath(path, k) : k \in 1..MaxSuffix}
           \cup {SuffixedPath(path, k) : k \in 1..MaxSuffix}

\* the vaults a single call is made on: any of the neighbours of one path
UnitVaults ==
    UNION {{[q \in held |-> OldNote] : held \in SUBSET Neighbours(path)} :
             path \in UnitPaths}

\* a call of resolveFileNameConflict, and a second call on what it returned
ResolveFileNameConflict(path) ==
    /\ unit' = [op |-> "resolveFileNameConflict", path |-> path,
                result |-> resolveFileNameConflict(path, settings),
                again |-> resolveFileNameConflict(
                              resolveFileNameConflict(path, settings), settings)]
    /\ UNCHANGED pipelineVars

\* a bare id between blanks; twelve id characters; only blanks
PaddedId == <<T(" ")>> \o SampleId \o <<T(" ")>>
LongToken == SampleId \o <<T("w")>>
BlankText == <<T(" "), T(" ")>>

\* the texts extractVideoId is called with
UnitTexts ==
    {WatchUrl, ShortUrl, EmbedUrl, QueryUrl, BareId, PaddedId, LongToken,
     TruncatedUrl, OtherUrl, EmptyUrl, BlankText}

\* URLInputModal.handleSubmit: the notice shown, or "submitted"
handleSubmit(text) ==
    IF Trim(text) = <<>> THEN "Please enter a YouTube URL"
    ELSE IF ~isValidYouTubeUrl(text) THEN "Invalid YouTube URL"
    ELSE "submitted"

\* a text goes through the entry points: the selection check of the plugin,
\* the validation of the modal, extractVideoId
ExtractVideoId(text) ==
    /\ unit' = [op |-> "extractVideoId", text |-> text,
                id |-> extractVideoId(text),
                valid |-> isValidYouTubeUrl(text),
                looksLike |-> looksLikeYouTubeURL(text),
                submit |-> handleSubmit(text)]
    /\ UNCHANGED pipelineVars

\* titles with the characters escapeYAMLValue looks for, and with the
\* characters String.replace reads in a replacement
YamlTitles ==
    {Toks(<<"Plain title">>),
     Toks(<<"He said", ":", " ", "\"", "hi", "\"">>),
     Toks(<<"It", "'", "s here">>),
     Toks(<<"Tip ", "#", "1">>),
     Toks(<<"C", ":", "\\", "temp">>),
     Toks(<<"a", "\\", "b">>),
     Toks(<<"Cost", ":", " ", "$", "$", "5">>)}

RECURSIVE SingleQuoted(_)
\* the content of a YAML single-quoted scalar, read from behind its opening
\* quote: '' stands for one quote, a single ' closes, a backslash is a
\* character like any other
SingleQuoted(t) ==
    IF t = <<>> THEN <<>>
    ELSE IF Head(t) = T("'")
         THEN IF Len(t) > 1 /\ t[2] = T("'")
              THEN <<T("'")>> \o SingleQuoted(Tail(Tail(t)))
              ELSE <<>>
         ELSE <<Head(t)>> \o SingleQuoted(Tail(t))

\* the string a YAML parser reads from a scalar in flow
parseYAMLScalar(t) ==
    IF t # <<>> /\ Head(t) = T("'") THEN SingleQuoted(Tail(t)) ELSE Trim(t)

\* the value of the title line of a rendered frontmatter
FrontmatterTitle(rendered) ==
    LET from == IndexOf(rendered, Toks(<<"title: ">>))
        rest == Drop(rendered, from)
        to == IndexOf(rest, Toks(<<"\n">>))
    IN  SubSeq(rest, 1, to - 1)

\* a title is escaped, and rendered into the frontmatter of the built-in
\* template; both are read back
EscapeYAMLValue(title) ==
    /\ unit' = [op |-> "escapeYAMLValue", title |-> title,
                escaped |-> escapeYAMLValue(title),
                parsed |-> parseYAMLScalar(escapeYAMLValue(title)),
                frontTitle |-> parseYAMLScalar(FrontmatterTitle(
                    replaceVariables(DefaultTemplate,
                        buildTemplateData(
                            [metadata |-> [FallbackMetadata(SampleId) EXCEPT !.title = title],
                             transcript |-> ShortTranscript.plain,
                             timestampedTranscript |-> <<>>],
                            handleLLMErrorResult("skip"), settings))))]
    /\ UNCHANGED pipelineVars

\* the tags a generation result may carry
SampleTags ==
    {Toks(<<"Machine", " ", "Learning">>), Toks(<<"AI", "!">>),
     Toks(<<"!", "?">>), Toks(<<"-", "AI", " ", " ", "Learning", "-">>)}

\* the tag lists of up to MaxTags tags
TagLists == UNION {[1..n -> SampleTags] : n \in 0..MaxTags}

RECURSIVE SplitOn(_, _)
\* text.split(sep) for a single-token separator
SplitOn(t, sep) ==
    LET i == IndexOf(t, <<sep>>) IN
    IF i = 0 THEN <<t>>
    ELSE <<SubSeq(t, 1, i - 1)>> \o SplitOn(Drop(t, i), sep)

\* the tags a reader finds in the hashtag line: the words, without their '#'
HashtagList(text) ==
    IF text = <<>> THEN <<>>
    ELSE LET words == SplitOn(text, T(" "))
         IN  [i \in DOMAIN words |-> Tail(words[i])]

\* the tags a reader finds in the YAML block: the items, without '  - '
YamlList(text) ==
    IF text = <<>> THEN <<>>
    ELSE LET lines == SelectSeq(SplitOn(text, T("\n")), LAMBDA line : line # <<>>)
         IN  [i \in DOMAIN lines |-> Tail(lines[i])]

\* a tag list is formatted both ways, as buildTemplateData does
FormatTags(tags) ==
    /\ unit' = [op |-> "formatTags", tags |-> tags,
                hashtags |-> formatTagsHashtags(tags),
                yaml |-> formatTagsYAML(tags)]
    /\ UNCHANGED pipelineVars

\* how many caption tracks a player response may list
MaxTracks == 2
\* how many elements a caption body, or events an event list, may hold
MaxElements == 2

\* languageCode values, and kind: 'asr' marks an auto-generated track, a
\* manually authored one has no kind
TrackLanguages == {Toks(<<"en">>), Toks(<<"en", "-GB">>), Toks(<<"de">>)}
TrackKinds == {"asr", "manual"}
SampleTracks == [languageCode : TrackLanguages, kind : TrackKinds]
TrackLists == UNION {[1..n -> SampleTracks] : n \in 0..MaxTracks}

\* track.languageCode === 'en' || track.languageCode.startsWith('en')
isEnglish(track) == track.languageCode # <<>> /\ Head(track.languageCode) = T("en")

\* tracks.find(pred), None when nothing is found
Find(tracks, pred(_)) ==
    IF \E i \in DOMAIN tracks : pred(tracks[i])
    THEN tracks[CHOOSE i \in DOMAIN tracks :
                    pred(tracks[i]) /\ \A k \in 1..(i - 1) : ~pred(tracks[k])]
    ELSE None

Found(tracks, pred(_)) == \E i \in DOMAIN tracks : pred(tracks[i])

\* the selection of the earlier fetchTranscript, on the tracks embedded in the
\* page: manual English, manual, auto-generated English, auto-generated
captionTrackByKind(tracks) ==
    LET manualTracks == SelectSeq(tracks, LAMBDA t : t.kind # "asr")
        asrTracks == SelectSeq(tracks, LAMBDA t : t.kind = "asr")
    IN  IF Found(manualTracks, isEnglish) THEN Find(manualTracks, isEnglish)
        ELSE IF manualTracks # <<>> THEN manualTracks[1]
        ELSE IF Found(asrTracks, isEnglish) THEN Find(asrTracks, isEnglish)
        ELSE IF asrTracks # <<>> THEN asrTracks[1]
        ELSE None

\* the selection of fetchTranscriptViaInnertube, on a non-empty list: the
\* first English track, else the first track
captionTrack(tracks) ==
    IF Found(tracks, isEnglish) THEN Find(tracks, isEnglish) ELSE tracks[1]

\* decodeXMLEntities, token by token
decodeXMLEntities(text) ==
    [i \in DOMAIN text |->
        CASE text[i] = T("&amp;") -> T("&")
          [] text[i] = T("&lt;") -> T("<")
          [] text[i] = T("&gt;") -> T(">")
          [] text[i] = T("&quot;") -> T("\"")
          [] text[i] = T("&#39;") -> T("'")
          [] text[i] = T("&apos;") -> T("'")
          [] OTHER -> text[i]]

\* a caption body is a sequence of chunks: <text start=".." dur="..">..</text>
\* elements, which the regex of parseTranscriptXml matches, and other markup,
\* which it skips; start and dur are decimal seconds
Seconds(whole, frac) == [whole |-> whole, frac |-> frac]
TextElement(text) ==
    [tag |-> "text", start |-> Seconds(1, 500), dur |-> Seconds(0, 500), text |-> text]
OtherMarkup == [tag |-> "transcript"]
ElementTexts ==
    {Toks(<<"Hello">>), Toks(<<" ", "a", "&amp;", "b", " ">>), <<>>, Toks(<<" ">>)}
Chunks == {OtherMarkup} \cup {TextElement(t) : t \in ElementTexts}
Bodies == UNION {[1..n -> Chunks] : n \in 0..MaxElements}

\* Math.round(parseFloat(attr) * 1000)
Millis(attr) == attr.whole * 1000 + attr.frac

\* YouTubeService.parseTranscriptXml: one segment per matched element
parseTranscriptXml(xml) ==
    LET elements == SelectSeq(xml, LAMBDA c : c.tag = "text")
    IN  [i \in DOMAIN elements |->
            [text |-> Trim(decodeXMLEntities(elements[i].text)),
             offset |-> Millis(elements[i].start),
             duration |-> Millis(elements[i].dur)]]

ZeroWidth == T("\\u200B")

RECURSIVE NormalizeWhitespace(_)
\* .replace(/\s+/g, ' ')
NormalizeWhitespace(t) ==
    IF t = <<>> THEN <<>>
    ELSE IF Head(t) = T(" ") /\ Len(t) > 1 /\ t[2] = T(" ")
         THEN NormalizeWhitespace(Tail(t))
         ELSE <<Head(t)>> \o NormalizeWhitespace(Tail(t))

\* the text of an event: its segs joined, zero-width characters removed,
\* whitespace normalized, trimmed
eventText(segs) ==
    Trim(NormalizeWhitespace(
        SelectSeq(Join([i \in DOMAIN segs |->
                            IF "utf8" \in DOMAIN segs[i] THEN segs[i].utf8 ELSE <<>>],
                       <<>>),
                  LAMBDA tok : tok # ZeroWidth)))

\* a bug to compare with: every event with segs gives a segment
parseTranscriptJson_KeepEmpty(data) ==
    IF "events" \notin DOMAIN data THEN <<>>
    ELSE LET events == SelectSeq(data.events, LAMBDA e : "segs" \in DOMAIN e)
         IN  [i \in DOMAIN events |->
                 [text |-> eventText(events[i].segs),
                  offset |-> events[i].tStartMs,
                  duration |-> events[i].dDurationMs]]

\* YouTubeService.parseTranscriptJson
parseTranscriptJson(data) ==
    IF "events" \notin DOMAIN data THEN <<>>
    ELSE LET events == SelectSeq(data.events, LAMBDA e :
                           "segs" \in DOMAIN e /\ eventText(e.segs) # <<>>)
         IN  [i \in DOMAIN events |->
                 [text |-> eventText(events[i].segs),
                  offset |-> events[i].tStartMs,
                  duration |-> events[i].dDurationMs]]

\* an event with segs; tStartMs || 0 and dDurationMs || 0 are the given numbers
Event(segs, start, dur) == [segs |-> segs, tStartMs |-> start, dDurationMs |-> dur]
Utf8(text) == [utf8 |-> text]
SampleEvents ==
    {[tStartMs |-> 0, dDurationMs |-> 0],
     Event(<<Utf8(Toks(<<"Hello">>)), Utf8(Toks(<<" ", "world">>))>>, 1000, 500),
     Event(<<Utf8(Toks(<<" ">>)), Utf8(<<ZeroWidth>>), [acAsrConf |-> 0]>>, 2000, 0),
     Event(<<>>, 0, 0),
     Event(<<Utf8(Toks(<<"a", " ", " ">>)), Utf8(Toks(<<" ", "b", " ">>))>>, 3000, 100)}
EventLists ==
    {[wireMagic |-> "pb3"]}
    \cup {[events |-> l] : l \in UNION {[1..n -> SampleEvents] : n \in 0..MaxElements}}

\* timestamped.map(item => item.text).join(' ')
plainOf(timestamped) ==
    Join([i \in DOMAIN timestamped |-> timestamped[i].text], <<T(" ")>>)

\* what the host answers: the watch page (with the API key, without it, or
\* the request throws), the tracks of the player response and the body served
\* at the baseUrl of a track
PageAnswers == {"ok", "nokey", "throws"}
Hosts ==
    [page : {"ok"}, tracks : TrackLists, body : Bodies]
    \cup [page : PageAnswers \ {"ok"}, tracks : {<<>>}, body : {<<>>}]

\* YouTubeService.fetchTranscriptViaInnertube
fetchTranscriptViaInnertube(host) ==
    IF host.page = "throws" THEN Throw("Request failed, status 429")
    ELSE IF host.page = "nokey" THEN Throw("Could not find Innertube API key")
    ELSE IF host.tracks = <<>> THEN Throw("No captions found in Innertube response")
    ELSE IF host.body = <<>> THEN Throw("Empty transcript from Innertube API")
    ELSE Return([plain |-> plainOf(parseTranscriptXml(host.body)),
                 timestamped |-> parseTranscriptXml(host.body)])

\* YouTubeService.fetchTranscript
fetchTranscript(host) == fetchTranscriptViaInnertube(host)

\* a transcript is fetched from a host
FetchTranscript(host) ==
    /\ unit' = [op |-> "fetchTranscript", host |-> host,
                track |-> IF host.page = "ok" /\ host.tracks # <<>>
                          THEN captionTrack(host.tracks) ELSE None,
                result |-> fetchTranscript(host)]
    /\ UNCHANGED pipelineVars

\* an event list is parsed
ParseTranscriptJson(data) ==
    /\ unit' = [op |-> "parseTranscriptJson", data |-> data,
                timestamped |-> parseTranscriptJson(data)]
    /\ UNCHANGED pipelineVars

CaptionNext ==
    /\ unit = None
    /\ \/ \E h \in Hosts : FetchTranscript(h)
       \/ \E d \in EventLists : ParseTranscriptJson(d)

\* the service as constructed; the fetch reads neither settings nor vault
CaptionInit ==
    /\ settings \in SettingsSpace
    /\ BaseLLM(settings) /\ KeyScenario(settings)
    /\ settings.errorBehavior = "skip"
    /\ settings.templatePath = <<>> /\ settings.defaultFolder = <<>>
    /\ settings.fileExistsBehavior = "append"
    /\ files = <<>> /\ folders = {}
    /\ Constructed

CaptionSpec == CaptionInit /\ [][CaptionNext]_vars

\* templates whose placeholders stand in the body: one without frontmatter,
\* one with; {{unknown}} is no key of TemplateData
BodyTemplate ==
    Toks(<<"# ", "{{title}}", "\n", "{{unknown}}", "\n", "{{transcript}}", "\n",
           "{{title}}">>)
BodyTemplates ==
    {BodyTemplate, Toks(<<"---", "source: ", "yt", "---">>) \o BodyTemplate}

\* titles and transcripts with placeholder syntax and replacement patterns
SubstitutedValues ==
    {Toks(<<"Talk">>),
     Toks(<<"see ", "{{transcript}}">>),
     Toks(<<"see ", "{{title}}">>),
     Toks(<<"{{unknown}}">>),
     Toks(<<"cost ", "$", "&", " and ", "$", "$">>)}

\* the record buildTemplateData makes for a title and a transcript
TemplateDataOf(title, transcript) ==
    buildTemplateData(
        [metadata |-> [FallbackMetadata(SampleId) EXCEPT !.title = title],
         transcript |-> transcript,
         timestampedTranscript |-> <<>>],
        handleLLMErrorResult("partial"), settings)

\* the body region of a template or of a rendered document
BodyOf(text) ==
    IF FrontmatterEnd(text) > 0 THEN SubSeq(text, FrontmatterEnd(text) + 1, Len(text))
    ELSE text

\* a template is rendered from a record
ReplaceVariables(template, title, transcript) ==
    /\ unit' = [op |-> "replaceVariables", template |-> template,
                data |-> TemplateDataOf(title, transcript),
                rendered |-> replaceVariables(template, TemplateDataOf(title, transcript))]
    /\ UNCHANGED pipelineVars

UnitCall ==
    \/ \E l \in TagLists : FormatTags(l)
    \/ \E t \in BodyTemplates, v \in SubstitutedValues, w \in SubstitutedValues :
          ReplaceVariables(t, v, w)
    \/ \E t \in YamlTitles : EscapeYAMLValue(t)
    \/ \E t \in UnitTexts : ExtractVideoId(t)
    \/ \E q \in UnitPaths : ResolveFileNameConflict(q)
    \/ \E t \in TranscriptInputs : GenerationInput(t)
    \/ \E a \in Adapters, k \in ApiKeys, n \in NetOutcomes : TestConnection(a, k, n)

\* one call in a behaviour: each call is made on the services as constructed
UnitNext ==
    /\ unit = None
    /\ UnitCall

\* the default configuration but for the conflict setting, and a vault of
\* earlier notes
UnitInit ==
    /\ settings \in SettingsSpace
    /\ BaseLLM(settings) /\ KeyScenario(settings)
    /\ settings.errorBehavior = "skip"
    /\ settings.templatePath = <<>> /\ settings.defaultFolder = <<>>
    /\ files \in UnitVaults
    /\ folders = {}
    /\ Constructed

UnitSpec == UnitInit /\ [][UnitNext]_vars

----------------------------------------------------------------------------
(* Vocabulary of the properties *)

\* some step of the run failed in the given stage
FailedAt(stage) == \E i \in DOMAIN failed : failed[i].stage = stage

\* the error that stage failed with
ErrorAt(stage) == failed[CHOOSE i \in DOMAIN failed : failed[i].stage = stage].error

\* how many notifications of a kind the run has raised
CountNotices(kind) == Cardinality({i \in DOMAIN notices : notices[i].kind = kind})

\* the status bar has shown the message
Shown(msg) == \E i \in DOMAIN statusBar : statusBar[i] = msg

\* the run is over
Ended == pc \in {"Done", "Failed"}

----------------------------------------------------------------------------
(* Error policy of the pipeline *)

\* C1: once extract has been called with a text that holds no video id, the
\* run is in Failed with the error 'Invalid YouTube URL' and nothing else has
\* happened: one error notification, no request in flight, no probe, no
\* generation call, no template record, no content, the vault as it was. The
\* statement does not read the error policy: it holds under all three.
C1_InvalidInputIsFatal ==
    (pc # "Idle" /\ extractVideoId(url) = <<>>) =>
        /\ pc = "Failed"
        /\ thrown = "Invalid YouTube URL"
        /\ notices = <<[kind |-> "error", msg |-> "Error: Invalid YouTube URL"]>>
        /\ statusBar = <<"Extraction failed">>
        /\ attempt = 0 /\ inflight = {} /\ youtubeData = None
        /\ probes = <<>> /\ genCalls = <<>> /\ llmResponse = None
        /\ templateData = None /\ content = <<>> /\ finalPath = <<>>
        /\ absorbed = <<>> /\ failed = <<>>
        /\ files = vault0.files /\ folders = vault0.folders

\* a bare 11-character id was submitted under the most lenient policy
C1_Witness ==
    /\ pc = "Failed"
    /\ url = BareId
    /\ settings.errorBehavior = "skip"

C5_StopCreatesNoFile ==
    (settings.errorBehavior = "stop" /\ failed # <<>>) => files = vault0.files

\* C6: while the folder creation is pending the folder was absent and no file
\* has been created; the file creation is attempted only with the parent
\* folder present; a created note is a new path holding the content; after a
\* failed folder or file creation, under every policy, the run is in Failed
\* with exactly the error of the vault call, its message is the last
\* notification, no success was reported and no file was created.
C6_WritingFatal ==
    /\ pc = "CreatingFolder" =>
            /\ settings.defaultFolder # <<>>
            /\ settings.defaultFolder \notin folders
            /\ files = vault0.files
    /\ (pc \in {"CreatingFile", "Done"} /\ settings.defaultFolder # <<>>) =>
            settings.defaultFolder \in folders
    /\ pc = "Done" =>
            /\ finalPath \notin DOMAIN vault0.files
            /\ finalPath \in DOMAIN files
            /\ files[finalPath] = content
    /\ (FailedAt("folder") \/ FailedAt("file")) =>
            /\ pc = "Failed"
            /\ thrown = failed[Len(failed)].error
            /\ notices[Len(notices)] = [kind |-> "error", msg |-> "Error: " \o thrown]
            /\ CountNotices("success") = 0
            /\ ~Shown("Note created successfully")
            /\ files = vault0.files
    /\ FailedAt("folder") => folders = vault0.folders /\ ~FailedAt("file")

\* under 'partial' the folder was created and the file creation then failed
C6_Witness ==
    /\ settings.errorBehavior = "partial"
    /\ FailedAt("file")
    /\ folders # vault0.folders
    /\ pc = "Failed"

\* the failures of the run that a policy absorbed with a warning
AbsorbedFailures ==
    Cardinality({i \in DOMAIN failed : failed[i].stage \in {"fetch", "generation", "template"}})

----------------------------------------------------------------------------
(* The fetch *)

C9_MetadataNeverBlocks ==
    /\ metaRes # None =>
          /\ metaRes.ok
          /\ metaRes.outcome = "throws" =>
                /\ metaRes.value.title = <<T("Video ")>> \o metaRes.value.videoId
                /\ metaRes.value.videoId = SampleId
                /\ metaRes.value.channel = <<T("Unknown")>>
                /\ metaRes.value.duration = <<T("0"), T(":"), T("00")>>
                /\ metaRes.value.viewCount = 0
                /\ metaRes.value.description = <<>>
    /\ (pc = "FetchingSource" /\ metaRes # None /\ trRes # None) =>
          /\ (ENABLED AttemptResolves) <=> trRes.ok
          /\ (ENABLED AttemptRejects) <=> ~trRes.ok
    /\ lastError \in FetchErrors \cup {""}
    /\ FailedAt("fetch") => ErrorAt("fetch") \in FetchErrors
    /\ (youtubeData # None /\ ~FailedAt("fetch")) =>
          youtubeData.transcript \in {t.plain : t \in Transcripts}

\* the page request threw, the transcript arrived: the fetch succeeded with
\* the degraded metadata
C9_Witness ==
    /\ pc = "Generating"
    /\ failed = <<>>
    /\ youtubeData.metadata.channel = <<T("Unknown")>>
    /\ youtubeData.metadata.title = <<T("Video ")>> \o SampleId
    /\ youtubeData.transcript = ShortTranscript.plain

----------------------------------------------------------------------------
(* The generation *)

\* the adapter that is active when generateSummary is entered
InitialProvider == createProvider(settings.llmProvider)

\* C10: a probe is made only with auto-detection enabled and the provider
\* 'custom', and then before any delegation; the probes follow the order
\* Ollama, LM Studio, llama.cpp; only the last probe made can have succeeded;
\* the delegation happens once, after a successful probe or after all three
\* failed, to the adapter that succeeded or else to the one active before,
\* which is then the active adapter, and with the configured system prompt.
C10_AutoDetect ==
    /\ probes # <<>> => settings.autoDetectEndpoint /\ settings.llmProvider = "custom"
    /\ (settings.autoDetectEndpoint /\ settings.llmProvider = "custom"
        /\ (genCalls # <<>> \/ pc = "Probing")) => (probes # <<>> \/ pc = "Probing")
    /\ Len(probes) <= 3
    /\ \A i \in DOMAIN probes :
          /\ probes[i].adapter = <<"Ollama", "LM Studio", "llama.cpp">>[i]
          /\ probes[i].result = "true" => i = Len(probes)
    /\ pc = "Probing" => genCalls = <<>> /\ provider = InitialProvider
                         /\ \A i \in DOMAIN probes : probes[i].result # "true"
    /\ Len(genCalls) <= 1
    /\ (Shown("Generating summary...") /\ pc # "Probing") => Len(genCalls) = 1
    /\ genCalls # <<>> =>
          LET adopted == probes # <<>> /\ probes[Len(probes)].result = "true"
              active == IF adopted THEN probes[Len(probes)].adapter ELSE InitialProvider
          IN  /\ probes = <<>> \/ adopted \/ Len(probes) = 3
              /\ provider = active
              /\ genCalls[1].adapter = active
              /\ genCalls[1].prompt = settings.customSystemPrompt
    /\ genCalls = <<>> /\ pc # "Probing" => provider = InitialProvider

\* Ollama did not answer, LM Studio did: it was adopted and called once
C10_Witness ==
    /\ Len(probes) = 2
    /\ probes[1].result # "true"
    /\ probes[2] = [adapter |-> "LM Studio", result |-> "true"]
    /\ provider = "LM Studio"
    /\ Len(genCalls) = 1
    /\ genCalls[1].adapter = "LM Studio"

----------------------------------------------------------------------------
(* Claims C11 to C20 *)

Called(op) == unit # None /\ unit.op = op

\* the request of a connection test went wrong, or the credential is missing
ConnectionFails(adapter, apiKey, net) ==
    \/ adapter \in CloudAdapters /\ apiKey = NoKey
    \/ adapter # "Anthropic" /\ net # "ok"

\* C11: testConnection throws for no adapter and not for the LLMService; a
\* network error, a timeout, a non-OK status and a missing cloud credential
\* are all returned as false.
C11_TestConnectionNeverThrows ==
    Called("testConnection") =>
        /\ ~unit.result.threw
        /\ ~unit.service.threw
        /\ unit.service.value = unit.result.value
        /\ ConnectionFails(unit.adapter, unit.apiKey, unit.net)
              => unit.result.value = FALSE

\* the OpenAI adapter without a key answered false although the network is up
C11_Witness ==
    /\ Called("testConnection")
    /\ unit.adapter = "OpenAI"
    /\ unit.apiKey = NoKey
    /\ unit.net = "ok"
    /\ unit.result = Return(FALSE)

\* C12: a generation call on a cloud adapter without a credential sends no
\* HTTP request and fails with that adapter's 'API key is required' error;
\* the failure is then handled as any generation failure is: under 'stop' the
\* run is in Failed with the wrapped error and no new file, under 'partial'
\* and 'skip' the error is absorbed with a warning and the substitute result.
C12_MissingKeyFailsBeforeRequest ==
    \A i \in DOMAIN genCalls :
        (genCalls[i].adapter \in CloudAdapters /\ settings.llmApiKey = NoKey) =>
            /\ ~genCalls[i].request
            /\ pc # "AwaitGeneration" =>
                  /\ failed # <<>>
                  /\ \E j \in DOMAIN failed :
                        failed[j] = [stage |-> "generation",
                                     error |-> MissingKeyError(genCalls[i].adapter)]
                  /\ IF settings.errorBehavior = "stop"
                     THEN /\ pc = "Failed"
                          /\ thrown = "LLM generation failed: "
                                        \o MissingKeyError(genCalls[i].adapter)
                          /\ files = vault0.files
                     ELSE /\ llmResponse = handleLLMErrorResult(settings.errorBehavior)
                          /\ \E j \in DOMAIN absorbed :
                                absorbed[j] = MissingKeyError(genCalls[i].adapter)
                          /\ \E j \in DOMAIN notices :
                                notices[j] = Notice("warning",
                                    "Warning: LLM error - "
                                    \o MissingKeyError(genCalls[i].adapter)
                                    \o ". Creating note without summary.")
                          /\ thrown # "LLM generation failed: "
                                        \o MissingKeyError(genCalls[i].adapter)

\* Anthropic without a key under 'partial': nothing was sent, the error was
\* absorbed and the run went on to the rendering
C12_Witness ==
    /\ settings.llmProvider = "anthropic"
    /\ settings.llmApiKey = NoKey
    /\ settings.errorBehavior = "partial"
    /\ Len(genCalls) = 1
    /\ ~genCalls[1].request
    /\ absorbed = <<"Anthropic API key is required">>
    /\ pc = "Rendering"

\* C13: a transcript of at most 15000 characters is sent to the generation
\* as it is; of a longer one the first 15000 characters are sent, followed by
\* the truncation marker; the transcript of the template record is the whole
\* transcript in both cases.
C13_TruncationForGenerationOnly ==
    Called("generationInput") =>
        /\ TLen(unit.transcript) <= 15000 => unit.sent = unit.transcript
        /\ TLen(unit.transcript) > 15000 =>
              /\ TLen(unit.sent) = 15000 + TLen(TruncationMarker)
              /\ TTake(unit.sent, 15000) = TTake(unit.transcript, 15000)
              /\ SubSeq(unit.sent, Len(unit.sent), Len(unit.sent)) = TruncationMarker
        /\ unit.record = unit.transcript
        /\ TLen(unit.record) = TLen(unit.transcript)

\* a transcript of 15001 characters: 15000 of them and the marker were sent,
\* the template record holds all 15001
C13_Witness ==
    /\ Called("generationInput")
    /\ TLen(unit.transcript) = 15001
    /\ TLen(unit.sent) = 15000 + TLen(TruncationMarker)
    /\ TLen(unit.record) = 15001

\* the vault holds a file or a folder at the path
Exists(path) == getAbstractFileByPath(path) # "null"

\* C14 (as stated): a path that does not exist is returned unchanged, and a
\* second call returns the same; for a path that exists, under 'append', the
\* result is the path with ' k' in front of its extension for the smallest
\* k >= 1 whose path is not in use; the returned path does not exist; the
\* probing ends, after at most one probe more than the vault holds files.
C14_AppendPicksSmallestFreeSuffix ==
    Called("resolveFileNameConflict") =>
        /\ ~Exists(unit.path) => unit.result = unit.path /\ unit.again = unit.result
        /\ (Exists(unit.path) /\ settings.fileExistsBehavior = "append") =>
              /\ \E k \in 1..(Cardinality(DOMAIN files) + 1) :
                    /\ unit.result = SuffixedPath(unit.path, k)
                    /\ \A j \in 1..(k - 1) : Exists(SuffixedPath(unit.path, j))
              /\ ~Exists(unit.result)

\* what holds of the code: the same, with the name the loop builds, which
\* drops the first '.md' of the path wherever it stands
C14_AppendPicksSmallestFreeNumbered ==
    Called("resolveFileNameConflict") =>
        /\ ~Exists(unit.path) => unit.result = unit.path /\ unit.again = unit.result
        /\ (Exists(unit.path) /\ settings.fileExistsBehavior = "append") =>
              /\ \E k \in 1..(Cardinality(DOMAIN files) + 1) :
                    /\ unit.result = NumberedPath(unit.path, k)
                    /\ \A j \in 1..(k - 1) : Exists(NumberedPath(unit.path, j))
              /\ ~Exists(unit.result)
              /\ unit.again = unit.result

\* 'README.md explained.md' exists: the name returned has lost the inner
\* '.md' and carries the number behind the whole name
C14_Witness ==
    /\ Called("resolveFileNameConflict")
    /\ unit.path = DottedPath
    /\ settings.fileExistsBehavior = "append"
    /\ DOMAIN files = {DottedPath}
    /\ unit.result = Toks(<<"README", " explained", ".md", " ", "1", ".md">>)

\* the path extract first targets
TargetPath == getFilePath(generateFilename(templateData, settings), settings)

C16_SettingsReadOnly == [][settings' = settings]_vars

\* a run has ended with a detected adapter in place of the configured one,
\* and the configuration still names the provider 'custom'
C16_Witness ==
    /\ pc = "Done"
    /\ settings.llmProvider = "custom"
    /\ settings.autoDetectEndpoint
    /\ provider = "LM Studio"
    /\ provider # createProvider(settings.llmProvider)

\* the warnings raised for an absorbed error
WarningsFor(error) ==
    {Notice("warning", "Warning: " \o error \o ". Creating partial note."),
     Notice("warning", "Warning: LLM error - " \o error \o ". Creating note without summary."),
     Notice("warning", "Warning: Template error, using fallback")}

\* the fetchMetadata of the current attempt failed and returned the fallback
MetadataFailed == metaRes # None /\ metaRes.ok /\ metaRes.outcome = "throws"

\* a probe of auto-detection has failed
ProbeFailed == \E i \in DOMAIN probes : probes[i].result # "true"

\* the run has left a trace of any kind
SomeTrace == notices # <<>> \/ console # <<>> \/ thrown # ""

\* C17 (as the code has it): each absorbed error has raised one warning
\* notification, which is not the terminal notification: the warnings are as
\* many as the absorbed errors, and a run that is over has raised exactly one
\* success or error notification, the last one. An error that ends the run
\* is logged and notified; a failed generation call is logged. Nothing else
\* is ever notified or logged: a failed metadata fetch and a failed probe
\* leave no notification, no log entry and no error behind.
C17_AbsorbedErrorsWarn ==
    /\ CountNotices("warning") = Len(absorbed)
    /\ \A i \in DOMAIN absorbed :
          \E j \in DOMAIN notices : notices[j] \in WarningsFor(absorbed[i])
    /\ \A j \in DOMAIN notices :
          \/ \E i \in DOMAIN absorbed : notices[j] \in WarningsFor(absorbed[i])
          \/ j = Len(notices) /\ pc = "Failed"
             /\ notices[j] = Notice("error", "Error: " \o thrown)
          \/ j = Len(notices) /\ pc = "Done" /\ notices[j].kind = "success"
    /\ Ended => CountNotices("success") + CountNotices("error") = 1
    /\ ~Ended => CountNotices("success") + CountNotices("error") = 0
    /\ pc = "Failed" =>
          console[Len(console)] = Logged("error", "Extraction error: " \o thrown)
    /\ FailedAt("generation") =>
          \E j \in DOMAIN console :
              console[j] = Logged("error", "LLM Error Details: " \o ErrorAt("generation"))
    /\ \A j \in DOMAIN console :
          \/ console[j] = Logged("log", "Transcript truncated")
          \/ pc = "Failed" /\ console[j] = Logged("error", "Extraction error: " \o thrown)
          \/ /\ FailedAt("generation")
             /\ console[j].msg \in {"LLM Error Details: " \o ErrorAt("generation"),
                                    "LM Studio detailed error: " \o ErrorAt("generation")}
    /\ (failed = <<>> /\ ~Ended) => notices = <<>> /\ thrown = ""

\* the metadata fetch failed, Ollama did not answer the probe, the generation
\* failed and was absorbed: the note was created with one warning, for the
\* generation, and the one log entry is the generation's too
C17_Witness ==
    /\ pc = "Done"
    /\ youtubeData.metadata = FallbackMetadata(extractVideoId(url))
    /\ ProbeFailed
    /\ Len(absorbed) = 1
    /\ failed[1].stage = "generation"
    /\ CountNotices("warning") = 1
    /\ Len(notices) = 2
    /\ \A j \in DOMAIN console : console[j].level = "error"

\* C17 (as stated): each absorbed error has raised a warning that is not the
\* terminal notification, and every error, a failed metadata fetch and a
\* failed probe included, has propagated or left a notification or a log
\* entry behind
C17_NoErrorSwallowed ==
    /\ \A i \in DOMAIN absorbed :
          \E j \in DOMAIN notices : notices[j] \in WarningsFor(absorbed[i])
    /\ MetadataFailed => SomeTrace
    /\ ProbeFailed => SomeTrace

\* C18 (as stated): the watch-query, short-link and embed forms of one id
\* all give that id; a bare 11-character token is accepted too and returned
\* as the id; empty, blank and unrelated text give no id, without a throw;
\* a text is valid exactly when extractVideoId finds an id in it.
C18_ExtractVideoId ==
    Called("extractVideoId") =>
        /\ unit.text \in {WatchUrl, ShortUrl, EmbedUrl} => unit.id = SampleId
        /\ unit.text = BareId => unit.id = BareId
        /\ unit.text \in {EmptyUrl, BlankText, OtherUrl} => unit.id = <<>>
        /\ unit.valid <=> unit.id # <<>>

\* what holds of the code: the same but for the bare token, which gives no
\* id although the plugin offers it for extraction, so that the modal
\* turns it down
C18_ExtractVideoIdFromUrls ==
    Called("extractVideoId") =>
        /\ unit.text \in {WatchUrl, ShortUrl, EmbedUrl, QueryUrl} => unit.id = SampleId
        /\ unit.text \in {BareId, PaddedId, LongToken, TruncatedUrl} => unit.id = <<>>
        /\ unit.text \in {EmptyUrl, BlankText, OtherUrl} => unit.id = <<>>
        /\ unit.valid <=> unit.id # <<>>
        /\ unit.submit = "submitted" <=> unit.id # <<>>
        /\ unit.text \in {BareId, PaddedId} =>
              unit.looksLike /\ unit.submit = "Invalid YouTube URL"

\* C19 (as stated): the title line of the frontmatter rendered from the
\* built-in template reads back as the title, and for every title, with
\* quotes, colons or backslashes, the escaped value reads back as exactly
\* that title.
C19_YamlRoundTrip ==
    Called("escapeYAMLValue") =>
        /\ unit.parsed = unit.title
        /\ unit.frontTitle = unit.title

\* what holds of the code: a title without a backslash reads back from its
\* escaped value, and from the frontmatter too unless it holds a '$'; a
\* backslash comes back doubled
C19_YamlRoundTripWithoutBackslash ==
    Called("escapeYAMLValue") =>
        /\ (\A i \in DOMAIN unit.title : unit.title[i] # T("\\")) =>
              /\ unit.parsed = unit.title
              /\ (\A i \in DOMAIN unit.title : unit.title[i] # T("$")) =>
                    unit.frontTitle = unit.title
        /\ unit.title = Toks(<<"a", "\\", "b">>) =>
              unit.parsed = Toks(<<"a", "\\", "\\", "b">>)

\* C20 (as stated): the tags 'Machine Learning' and 'AI!' give the hashtag
\* line '#machine-learning #ai' and a YAML block of exactly the items
\* 'machine-learning' and 'ai'; for every tag list the hashtag line and the
\* YAML block hold the same normalised tags in the same order.
C20_TagFormatsAgree ==
    Called("formatTags") =>
        /\ unit.tags = <<Toks(<<"Machine", " ", "Learning">>), Toks(<<"AI", "!">>)>> =>
              /\ unit.hashtags =
                    Toks(<<"#", "machine", "-", "learning", " ", "#", "ai">>)
              /\ unit.yaml =
                    Toks(<<"\n", "  - ", "machine", "-", "learning", "\n", "  - ", "ai">>)
        /\ HashtagList(unit.hashtags) = YamlList(unit.yaml)

\* what holds of the code: the example; the YAML block holds the normalised
\* tags that are not empty, in order; the hashtag line holds every
\* normalised tag, the empty ones too, each as a bare '#'
C20_TagFormatsAgreeOnNonEmpty ==
    Called("formatTags") =>
        /\ unit.tags = <<Toks(<<"Machine", " ", "Learning">>), Toks(<<"AI", "!">>)>> =>
              /\ unit.hashtags =
                    Toks(<<"#", "machine", "-", "learning", " ", "#", "ai">>)
              /\ unit.yaml =
                    Toks(<<"\n", "  - ", "machine", "-", "learning", "\n", "  - ", "ai">>)
        /\ HashtagList(unit.hashtags) = [i \in DOMAIN unit.tags |-> normalizeTag(unit.tags[i])]
        /\ unit.tags # <<>> =>
              YamlList(unit.yaml) =
                  SelectSeq(HashtagList(unit.hashtags), LAMBDA tag : tag # <<>>)

----------------------------------------------------------------------------
(* The fetch against a host that may never answer *)

\* the steps the plugin takes by itself: the continuations of settled promises
\* and the backoff timer of extractVideoWithRetry. requestUrl is called with a
\* url only, so no timer settles a request the host leaves unanswered
ProgramStep ==
    \/ AttemptResolves
    \/ AttemptRejects
    \/ BackoffElapses

\* the fetch where timers fire and continuations run, and the host answers or
\* not as it pleases
HostSpec == FetchInit /\ [][FetchNext]_vars /\ WF_vars(ProgramStep)

----------------------------------------------------------------------------
(* Two extractions on one vault: step 4 of both runs, interleaved *)

Runs == {1, 2}

\* both runs render a note of the same title, hence the same target path
RaceTarget == BasePath(PageTitle, settings)
RaceContent(r) == IF r = 1 THEN Toks(<<"note of the first run">>)
                  ELSE Toks(<<"note of the second run">>)

FolderExists == "Folder already exists."

\* a bug to compare with: the write replaces the file of an existing path
create_Overwriting(path, data) ==
    [error |-> "",
     files |-> [p \in DOMAIN files \cup {path} |-> IF p = path THEN data ELSE files[p]]]

\* vault.create as saveFile calls it: a path that exists is refused
create(path, data) ==
    IF getAbstractFileByPath(path) # "null"
    THEN [error |-> FileExists, files |-> files]
    ELSE [error |-> "",
          files |-> [p \in DOMAIN files \cup {path} |-> IF p = path THEN data ELSE files[p]]]

RunAt(r, at, path, error) ==
    [unit EXCEPT !.run[r] = [pc |-> at, path |-> path, error |-> error]]

\* the catch of extract() in run r: handleError
RaceFails(r, msg) ==
    /\ unit' = RunAt(r, "Failed", unit.run[r].path, msg)
    /\ console' = Append(console, Logged("error", "Extraction error: " \o msg))
    /\ statusBar' = Append(statusBar, "Extraction failed")
    /\ notices' = Append(notices, Notice("error", "Error: " \o msg))

raceFrame == <<settings, url, pc, attempt, lastError, inflight, metaRes, trRes,
               youtubeData, provider, probeIdx, probes, genCalls, llmResponse,
               templateData, content, finalPath, thrown, absorbed, failed, vault0>>

\* run r computes its final path; saveFile runs up to its first await
RaceResolves(r) ==
    /\ unit # None /\ unit.op = "race"
    /\ unit.run[r].pc = "Writing"
    /\ \E p \in {resolveFileNameConflict(RaceTarget, settings)} :
          unit' = RunAt(r, IF folderOf(p) # <<>> /\ getAbstractFileByPath(folderOf(p)) = "null"
                           THEN "CreatingFolder" ELSE "CreatingFile", p, "")
    /\ UNCHANGED <<files, folders, statusBar, notices, console>>
    /\ UNCHANGED raceFrame

\* vault.createFolder of run r settles: it refuses a path that exists
RaceFolderSettles(r, outcome) ==
    /\ unit # None /\ unit.op = "race"
    /\ unit.run[r].pc = "CreatingFolder"
    /\ IF getAbstractFileByPath(folderOf(unit.run[r].path)) # "null"
       THEN RaceFails(r, FolderExists) /\ UNCHANGED folders
       ELSE IF outcome = "ok"
            THEN /\ folders' = folders \cup {folderOf(unit.run[r].path)}
                 /\ unit' = RunAt(r, "CreatingFile", unit.run[r].path, "")
                 /\ UNCHANGED <<statusBar, notices, console>>
            ELSE RaceFails(r, outcome) /\ UNCHANGED folders
    /\ UNCHANGED files
    /\ UNCHANGED raceFrame

\* vault.create of run r settles
RaceFileSettles(r, outcome) ==
    /\ unit # None /\ unit.op = "race"
    /\ unit.run[r].pc = "CreatingFile"
    /\ LET res == create(unit.run[r].path, RaceContent(r)) IN
       IF res.error # ""
       THEN RaceFails(r, res.error) /\ UNCHANGED files
       ELSE IF outcome = "ok"
            THEN /\ files' = res.files
                 /\ unit' = [RunAt(r, "Done", unit.run[r].path, "") EXCEPT
                                !.created = Append(@, [run |-> r, path |-> unit.run[r].path])]
                 /\ statusBar' = Append(statusBar, "Note created successfully")
                 /\ notices' = Append(notices,
                        [kind |-> "success", msg |-> "Created: ", path |-> unit.run[r].path])
                 /\ UNCHANGED console
            ELSE RaceFails(r, outcome) /\ UNCHANGED files
    /\ UNCHANGED folders
    /\ UNCHANGED raceFrame

RaceNext ==
    \/ \E r \in Runs : RaceResolves(r)
    \/ \E r \in Runs, o \in WriteOutcomes : RaceFolderSettles(r, o)
    \/ \E r \in Runs, o \in WriteOutcomes : RaceFileSettles(r, o)

\* both runs have rendered their note and are about to write it
RaceInit ==
    /\ settings \in SettingsSpace
    /\ BaseLLM(settings) /\ KeyScenario(settings)
    /\ settings.errorBehavior = "skip"
    /\ settings.templatePath = <<>>
    /\ \E n \in 0..MaxExisting, hasFolder \in BOOLEAN :
          /\ files = InitialFiles(settings, n, "absent")
          /\ folders = InitialFolders(settings, n, "absent", hasFolder)
    /\ PluginLoaded
    /\ unit = [op |-> "race",
               run |-> [r \in Runs |-> [pc |-> "Writing", path |-> <<>>, error |-> ""]],
               created |-> <<>>]

RaceSpec == RaceInit /\ [][RaceNext]_vars

----------------------------------------------------------------------------
(* BaseLLMProvider.fetchWithTimeout: a request raced against a timer *)

\* the timeout of every testConnection, in ms
HealthCheckTimeout == 5000
\* DEFAULT_SETTINGS.requestTimeout, in ms
DefaultRequestTimeout == 30000
RequestTimeouts == {DefaultRequestTimeout, 10000}
\* the instants the clock of a call goes through, in ms after the call
Instants == {0, 2500, 5000, 10000, 30000, 60000}
NextInstant(t) == IF \E i \in Instants : i > t
                  THEN CHOOSE i \in Instants : i > t /\ \A j \in Instants : j > t => i <= j
                  ELSE t

TimedMethods == {"generateSummary", "testConnection"}

\* the third argument of fetchWithTimeout in each method
timeoutOf(method, requestTimeout) ==
    IF method = "testConnection" THEN HealthCheckTimeout ELSE requestTimeout

AbortError == "The operation was aborted"
NetworkError == "Failed to fetch"

\* the catch of <Adapter>.generateSummary
GenerationFailed(adapter, msg) == Throw(adapter \o " generation failed: " \o msg)

\* what the method ends with once its request has ended as net
methodEnds(adapter, apiKey, method, net) ==
    IF method = "testConnection" THEN testConnection(adapter, apiKey, net)
    ELSE CASE net = "ok" -> Return(FullResponse)
           [] net = "status" -> GenerationFailed(adapter, adapter \o " request failed")
           [] net = "network" -> GenerationFailed(adapter, NetworkError)
           [] net = "timeout" -> GenerationFailed(adapter, AbortError)

\* a bug to compare with: the timer gives up the caller and leaves the request
onTimeout_Abandon(call) == [call EXCEPT !.timer = "fired"]

\* the timer callback, () => controller.abort(): the signal cancels the request
onTimeout(call) ==
    [call EXCEPT !.timer = "fired", !.aborted = TRUE, !.request = "cancelled"]

Timing == unit # None /\ unit.op = "fetchWithTimeout"

timeoutFrame == <<settings, url, files, folders, pc, statusBar, notices, attempt,
                  lastError, inflight, metaRes, trRes, youtubeData, provider,
                  probeIdx, probes, genCalls, llmResponse, templateData, content,
                  finalPath, thrown, absorbed, failed, vault0, console>>

\* time passes; a timer that is due fires before the clock moves on
Tick ==
    /\ Timing
    /\ NextInstant(unit.now) # unit.now
    /\ unit.timer = "armed" => NextInstant(unit.now) <= unit.delay
    /\ unit' = [unit EXCEPT !.now = NextInstant(unit.now)]
    /\ UNCHANGED timeoutFrame

\* the timer fires; fetch rejects with the abort error, the catch of
\* fetchWithTimeout clears the timer and rethrows, the method's catch runs
TimerFires ==
    /\ Timing
    /\ unit.timer = "armed" /\ unit.now >= unit.delay
    /\ unit' = [onTimeout(unit) EXCEPT
                  !.cleared = @ + 1,
                  !.settledAt = unit.now,
                  !.result = methodEnds(unit.adapter, unit.apiKey, unit.method, "timeout")]
    /\ UNCHANGED timeoutFrame

\* the response arrives: clearTimeout, return response; testConnection returns
\* response.ok, generateSummary goes on to read the body
ResponseArrives(net) ==
    /\ Timing
    /\ unit.request = "pending" /\ net \in {"ok", "status"}
    /\ unit' = [unit EXCEPT
                  !.request = "responded",
                  !.net = net,
                  !.timer = IF @ = "armed" THEN "cleared" ELSE @,
                  !.cleared = @ + 1,
                  !.settledAt = unit.now,
                  !.result = IF unit.method = "testConnection"
                             THEN methodEnds(unit.adapter, unit.apiKey, unit.method, net)
                             ELSE None]
    /\ UNCHANGED timeoutFrame

\* response.json() or response.text() settles, outside fetchWithTimeout
BodyArrives ==
    /\ Timing
    /\ unit.request = "responded" /\ unit.result = None
    /\ unit' = [unit EXCEPT
                  !.result = methodEnds(unit.adapter, unit.apiKey, unit.method, unit.net)]
    /\ UNCHANGED timeoutFrame

\* the request fails by itself: clearTimeout, rethrow, the method's catch runs
RequestFails ==
    /\ Timing
    /\ unit.request = "pending"
    /\ unit' = [unit EXCEPT
                  !.request = "failed",
                  !.net = "network",
                  !.timer = IF @ = "armed" THEN "cleared" ELSE @,
                  !.cleared = @ + 1,
                  !.settledAt = unit.now,
                  !.result = methodEnds(unit.adapter, unit.apiKey, unit.method, "network")]
    /\ UNCHANGED timeoutFrame

TimeoutNext ==
    \/ Tick
    \/ TimerFires
    \/ \E net \in NetOutcomes : ResponseArrives(net)
    \/ BodyArrives
    \/ RequestFails

\* a method of an adapter has just called fetchWithTimeout: the timer is armed
\* and the request is on its way
TimeoutInit ==
    /\ settings \in SettingsSpace
    /\ BaseLLM(settings) /\ KeyScenario(settings)
    /\ settings.errorBehavior = "skip"
    /\ settings.templatePath = <<>> /\ settings.defaultFolder = <<>>
    /\ settings.fileExistsBehavior = "append"
    /\ files = <<>> /\ folders = {}
    /\ PluginLoaded
    /\ \E adapter \in Adapters, method \in TimedMethods, t \in RequestTimeouts :
          /\ adapter = "Anthropic" => method = "generateSummary"
          /\ unit = [op |-> "fetchWithTimeout",
                     adapter |-> adapter,
                     apiKey |-> IF adapter = "Anthropic" THEN AnthropicKey
                                ELSE IF adapter \in CloudAdapters THEN OtherKey ELSE NoKey,
                     method |-> method,
                     delay |-> timeoutOf(method, t),
                     requestTimeout |-> t,
                     now |-> 0,
                     timer |-> "armed",
                     aborted |-> FALSE,
                     request |-> "pending",
                     net |-> "",
                     cleared |-> 0,
                     settledAt |-> 0,
                     result |-> None]

TimeoutSpec == TimeoutInit /\ [][TimeoutNext]_vars

----------------------------------------------------------------------------
(* Claims C21 to C30 *)

\* C21 (as stated): the requests in flight all belong to one attempt, the
\* current one, and while the fetcher waits for the next attempt no request
\* of the attempt before is in flight.
C21_AttemptsNeverOverlap ==
    /\ \A a \in inflight, b \in inflight : a[1] = b[1]
    /\ pc = "Backoff" => inflight = {}
    /\ pc = "FetchingSource" => \A a \in inflight : a[1] = attempt

\* what holds of the code: the calls of extractVideo follow one another, and
\* of an attempt that is over only the page request of its metadata can be
\* in flight still, its transcript request never
C21_OnlyMetadataOutlivesItsAttempt ==
    /\ \A a \in inflight :
          \/ pc = "FetchingSource" /\ a[1] = attempt
          \/ a[2] = "metadata"
    /\ \A a \in inflight : a[1] \in 1..maxRetries
    /\ pc = "FetchingSource" => attempt \in 1..maxRetries

\* C22: two runs that target one path take no lock, and the file store alone
\* keeps them apart: each path is created at most once, every file holds what
\* its creator wrote (earlier notes are untouched), and a run whose create
\* finds the path taken ends in Failed with nothing written.
RaceRun(r) == unit.run[r]
RaceEnded(r) == RaceRun(r).pc \in {"Done", "Failed"}

C22_BothCreatesInFlight ==
    /\ RaceRun(1).pc = "CreatingFile" /\ RaceRun(2).pc = "CreatingFile"
    /\ RaceRun(1).path = RaceRun(2).path

\* C23 (as stated): every request to the video host is bounded by a timeout,
\* so a fetch that has started comes to an end even when the host leaves a
\* request unanswered.
C23_HostCallsBounded ==
    [](pc \in {"FetchingSource", "Backoff"} =>
          <>(pc \notin {"FetchingSource", "Backoff"}))

\* C24: a generation request runs against a timer of requestTimeout ms and a
\* health check against one of 5000 ms. A request is never pending past its
\* timeout; when the timer fires the abort is signalled, the request is
\* cancelled and the call fails (generateSummary) or returns false
\* (testConnection); when the response or an error came first the timer is
\* cleared and no abort is ever signalled.
TimedOut == unit.timer = "fired"

C24_RequestsRaceATimer ==
    /\ unit.delay = IF unit.method = "testConnection" THEN 5000 ELSE unit.requestTimeout
    /\ unit.request = "pending" => unit.timer = "armed" /\ unit.now <= unit.delay
    /\ TimedOut =>
          /\ unit.aborted /\ unit.request = "cancelled"
          /\ unit.settledAt = unit.delay
          /\ unit.result # None
          /\ unit.method = "generateSummary" => unit.result.threw
          /\ unit.method = "testConnection" => unit.result = Return(FALSE)
    /\ unit.request \in {"responded", "failed"} =>
          /\ unit.timer = "cleared" /\ ~unit.aborted
          /\ unit.settledAt <= unit.delay
    /\ unit.aborted => TimedOut
    /\ unit.request # "pending" => unit.cleared = 1
    /\ unit.result # None /\ unit.method = "testConnection" => ~unit.result.threw

\* a health check timed out at 5000 ms and a later instant was reached
C24_Witness ==
    /\ unit.method = "testConnection" /\ TimedOut
    /\ unit.aborted /\ unit.result = Return(FALSE)
    /\ unit.delay = 5000 /\ unit.now > 5000

\* a generation answered in time: the timer was cleared and time went on past
\* the timeout without an abort
C24_ClearedTimerNeverFires ==
    /\ unit.method = "generateSummary" /\ unit.request = "responded"
    /\ unit.timer = "cleared" /\ unit.now > unit.delay /\ ~unit.aborted

\* C25: generation starts only when the source stage is over. The step that
\* leaves the fetch either has both results of the current attempt, with
\* neither of its requests in flight, or is the failure handler substituting
\* degraded data; every generation call is issued with source data at hand and
\* no transcript request in flight; and the stages are entered in the order
\* fetch, generation, rendering, writing, none skipped and none re-entered.
StageOf(at) ==
    CASE at \in {"FetchingSource", "Backoff"} -> 1
      [] at \in {"Generating", "Probing", "AwaitGeneration"} -> 2
      [] at \in {"Rendering", "ReadingTemplate"} -> 3
      [] at \in {"Writing", "CreatingFolder", "CreatingFile"} -> 4
      [] at = "Done" -> 5
      [] OTHER -> 0

C25_GenerationAfterSource ==
    /\ [][pc # "Generating" /\ pc' = "Generating" =>
            /\ pc = "FetchingSource"
            /\ \/ /\ Fulfilled(metaRes) /\ Fulfilled(trRes)
                  /\ \A a \in inflight : a[1] # attempt
                  /\ youtubeData'.metadata = metaRes.value
                  /\ youtubeData'.transcript = trRes.value.plain
               \/ /\ Rejected(trRes)
                  /\ absorbed' # absorbed
                  /\ youtubeData' = handleYouTubeErrorResult(settings.errorBehavior, url)]_vars
    /\ [][genCalls' # genCalls =>
            /\ youtubeData # None /\ youtubeData' = youtubeData
            /\ StageOf(pc) = 2
            /\ \A a \in inflight : a[2] = "metadata"]_vars
    /\ [][pc' # pc /\ pc' # "Failed" =>
            \/ StageOf(pc') = StageOf(pc) /\ StageOf(pc) # 0
            \/ StageOf(pc') = StageOf(pc) + 1]_vars
    /\ [](StageOf(pc) >= 2 => youtubeData # None)

\* a generation call was issued on the data of a successful attempt
C25_Witness ==
    /\ pc = "AwaitGeneration"
    /\ Len(genCalls) = 1
    /\ absorbed = <<>>
    /\ youtubeData.metadata.title = PageTitle

\* C26 (as stated): a fetch that returns has a transcript with text; a fetch
\* for which the host has no caption track, an empty body, or a body that
\* parses to zero segments fails.
NoTranscriptText(host) ==
    \/ host.page # "ok"
    \/ host.tracks = <<>>
    \/ host.body = <<>>
    \/ parseTranscriptXml(host.body) = <<>>

C26_NoEmptyTranscript ==
    Called("fetchTranscript") =>
        /\ NoTranscriptText(unit.host) => unit.result.threw
        /\ ~unit.result.threw =>
              /\ unit.result.value.timestamped # <<>>
              /\ unit.result.value.plain # <<>>

\* what holds of the code: the fetch fails exactly when the page request
\* fails, the page has no API key, the player response lists no track or the
\* body of the selected track has length 0; otherwise it returns what the
\* parser made of the body, be it nothing
C26_FailsWithoutTrackOrBody ==
    Called("fetchTranscript") =>
        /\ unit.result.threw <=>
              unit.host.page # "ok" \/ unit.host.tracks = <<>> \/ unit.host.body = <<>>
        /\ unit.host.page = "ok" /\ unit.host.tracks = <<>> =>
              unit.result = Throw("No captions found in Innertube response")
        /\ unit.host.page = "ok" /\ unit.host.tracks # <<>> /\ unit.host.body = <<>> =>
              unit.result = Throw("Empty transcript from Innertube API")
        /\ ~unit.result.threw =>
              /\ unit.result.value.timestamped = parseTranscriptXml(unit.host.body)
              /\ unit.result.value.plain = plainOf(unit.result.value.timestamped)

\* a body of markup without a text element came back as an empty transcript
C26_EmptyTranscriptReturned ==
    /\ Called("fetchTranscript")
    /\ ~unit.result.threw
    /\ unit.result.value.plain = <<>> /\ unit.result.value.timestamped = <<>>

\* C27 (as stated): from every list of caption tracks of the player response
\* the fetch selects the first manual track in the preferred language, else
\* the first manual track, else the first auto-generated track in the
\* preferred language, else the first auto-generated track.
Selecting == Called("fetchTranscript") /\ unit.host.page = "ok" /\ unit.host.tracks # <<>>

C27_ManualTracksPreferred ==
    Selecting => unit.track = captionTrackByKind(unit.host.tracks)

\* what holds of the code: the first track whose language code begins with
\* 'en' is selected whatever its kind, else the first track of the list
C27_FirstEnglishElseFirst ==
    Selecting =>
        LET tracks == unit.host.tracks
            english == {i \in DOMAIN tracks : isEnglish(tracks[i])}
        IN  /\ english = {} => unit.track = tracks[1]
            /\ english # {} =>
                  \E i \in english : unit.track = tracks[i] /\ \A k \in english : i <= k

\* an auto-generated English track was selected though a manual one is listed
C27_AutoGeneratedSelectedOverManual ==
    /\ Selecting
    /\ unit.track.kind = "asr"
    /\ \E i \in DOMAIN unit.host.tracks : unit.host.tracks[i].kind = "manual"

\* C28 (as stated): every segment the parsers produce, from an event list or
\* from markup, has text; an event without segs gives no segment; the event
\* with segs 'Hello' and ' world' at 1000 ms for 500 ms gives the one segment
\* {text: 'Hello world', offset: 1000, duration: 500}; and the plain
\* transcript is the segment texts joined by single spaces.
HelloWorld ==
    Event(<<Utf8(Toks(<<"Hello">>)), Utf8(Toks(<<" ", "world">>))>>, 1000, 500)

C28_SegmentsHaveText ==
    /\ Called("parseTranscriptJson") =>
          /\ \A i \in DOMAIN unit.timestamped : unit.timestamped[i].text # <<>>
          /\ unit.data = [events |-> <<[tStartMs |-> 0, dDurationMs |-> 0], HelloWorld>>] =>
                unit.timestamped = <<[text |-> Toks(<<"Hello", " ", "world">>),
                                      offset |-> 1000, duration |-> 500]>>
    /\ Called("fetchTranscript") /\ ~unit.result.threw =>
          LET segments == unit.result.value.timestamped IN
          /\ \A i \in DOMAIN segments : segments[i].text # <<>>
          /\ unit.result.value.plain =
                Join([i \in DOMAIN segments |-> segments[i].text], <<T(" ")>>)

\* what holds of the code: the event-list parser drops events without segs
\* and events whose text is empty, keeps the order, and takes offset and
\* duration from the event; the markup parser gives one segment for every
\* matched element, with the text trimmed, be it empty; the plain transcript
\* is the join of the texts
C28_EventSegmentsHaveText ==
    /\ Called("parseTranscriptJson") =>
          /\ \A i \in DOMAIN unit.timestamped : unit.timestamped[i].text # <<>>
          /\ "events" \in DOMAIN unit.data =>
                Len(unit.timestamped) =
                    Cardinality({i \in DOMAIN unit.data.events :
                                    /\ "segs" \in DOMAIN unit.data.events[i]
                                    /\ eventText(unit.data.events[i].segs) # <<>>})
          /\ unit.data = [events |-> <<[tStartMs |-> 0, dDurationMs |-> 0], HelloWorld>>] =>
                unit.timestamped = <<[text |-> Toks(<<"Hello", " ", "world">>),
                                      offset |-> 1000, duration |-> 500]>>
    /\ Called("fetchTranscript") /\ ~unit.result.threw =>
          LET segments == unit.result.value.timestamped IN
          /\ Len(segments) =
                Cardinality({i \in DOMAIN unit.host.body : unit.host.body[i].tag = "text"})
          /\ \A i \in DOMAIN segments :
                segments[i].text = <<>> \/
                   (Head(segments[i].text) # T(" ")
                    /\ segments[i].text[Len(segments[i].text)] # T(" "))
          /\ unit.result.value.plain =
                Join([i \in DOMAIN segments |-> segments[i].text], <<T(" ")>>)

\* the example of the claim was parsed
C28_ExampleParsed ==
    /\ Called("parseTranscriptJson")
    /\ unit.data = [events |-> <<[tStartMs |-> 0, dDurationMs |-> 0], HelloWorld>>]
    /\ Len(unit.timestamped) = 1

\* a caption element without text became a segment without text
C28_EmptySegmentFromMarkup ==
    /\ Called("fetchTranscript") /\ ~unit.result.threw
    /\ \E i \in DOMAIN unit.result.value.timestamped :
          unit.result.value.timestamped[i].text = <<>>

\* C29 (as stated): in the body region every placeholder of a key of the
\* record is replaced by the value of that key exactly as it is, with any
\* placeholder syntax and any '$' in it, and every other token of the
\* template, unknown placeholders included, is left as it is.
Placeholder(key) == T("{{" \o key \o "}}")
KeysOf(tok) == {k \in DOMAIN TemplateKeys : Placeholder(TemplateKeys[k]) = tok}

RECURSIVE Verbatim(_, _)
Verbatim(body, data) ==
    IF body = <<>> THEN <<>>
    ELSE (IF KeysOf(Head(body)) # {}
          THEN data[TemplateKeys[CHOOSE k \in KeysOf(Head(body)) : TRUE]]
          ELSE <<Head(body)>>)
         \o Verbatim(Tail(body), data)

C29_ValuesNeverReinterpreted ==
    Called("replaceVariables") =>
        BodyOf(unit.rendered) = Verbatim(BodyOf(unit.template), unit.data)

\* what holds of the code: the body is rendered verbatim unless a value holds
\* the placeholder of a key that comes later in the record than its own; '$'
\* and unknown placeholders never change
HoldsLaterPlaceholder(data) ==
    \E k \in DOMAIN TemplateKeys, m \in DOMAIN TemplateKeys :
        /\ k < m
        /\ \E i \in DOMAIN data[TemplateKeys[k]] :
              data[TemplateKeys[k]][i] = Placeholder(TemplateKeys[m])

C29_VerbatimUnlessLaterKey ==
    Called("replaceVariables") =>
        /\ ~HoldsLaterPlaceholder(unit.data) =>
              BodyOf(unit.rendered) = Verbatim(BodyOf(unit.template), unit.data)
        /\ \E i \in DOMAIN unit.rendered : unit.rendered[i] = T("{{unknown}}")

\* a title with '{{transcript}}' in it was rendered with the transcript in
\* the place of the placeholder
C29_TitleReinterpreted ==
    /\ Called("replaceVariables")
    /\ unit.data.title = Toks(<<"see ", "{{transcript}}">>)
    /\ unit.data.transcript = Toks(<<"Talk">>)
    /\ \A i \in DOMAIN unit.rendered : unit.rendered[i] # T("{{transcript}}")

\* a title with '$&' and '$$' in it was rendered as it is
C29_DollarsVerbatim ==
    /\ Called("replaceVariables")
    /\ unit.data.title = Toks(<<"cost ", "$", "&", " and ", "$", "$">>)
    /\ BodyOf(unit.rendered) = Verbatim(BodyOf(unit.template), unit.data)

\* C30: every failure inside extract() ends in its catch, so a run ends in
\* Done or in Failed and nowhere else, and it raises exactly one terminal
\* notification, as its last: 'Created: <path>' exactly when the file was
\* created at the final path, and otherwise one 'Error: <message>' for the
\* error that was caught, with no file created. Before the end there is none.
Created ==
    /\ finalPath \in DOMAIN files /\ finalPath \notin DOMAIN vault0.files
    /\ files[finalPath] = content

C30_OneTerminalNotification ==
    /\ ~Ended => CountNotices("success") = 0 /\ CountNotices("error") = 0
    /\ Ended => CountNotices("success") + CountNotices("error") = 1
    /\ Ended => notices[Len(notices)].kind \in {"success", "error"}
    /\ pc = "Done" <=> CountNotices("success") = 1
    /\ pc = "Failed" <=> CountNotices("error") = 1
    /\ pc = "Done" =>
          /\ Created
          /\ notices[Len(notices)] =
                [kind |-> "success", msg |-> "Created: ", path |-> finalPath]
          /\ thrown = ""
    /\ pc = "Failed" =>
          /\ DOMAIN files = DOMAIN vault0.files
          /\ thrown # ""
          /\ notices[Len(notices)] = Notice("error", "Error: " \o thrown)
    /\ DOMAIN files # DOMAIN vault0.files => pc = "Done"

\* the write was refused at the last step: the run ended with the one error
\* notification, after the warnings of the errors absorbed before
C30_Witness ==
    /\ pc = "Failed"
    /\ thrown = FileExists
    /\ CountNotices("error") = 1
    /\ CountNotices("warning") >= 1

====
